---- MODULE Spec2Model ----
(***************************************************************************)
(* Model of anatol/vmtest: the QEMU session (NewQemu, the exit watcher,    *)
(* Kill/Shutdown/wait), the console pump with its escape-sequence filter,  *)
(* and the console matcher (ConsoleExpect, ConsoleExpectRE,                *)
(* consoleProcess).                                                        *)
(*                                                                         *)
(* A console byte is a one-symbol string: "A", "B", "c", ... are the       *)
(* bytes themselves, "NL" is '\n' and "ESC" is 0x1b.  A byte slice is a    *)
(* sequence of such symbols.                                               *)
(***************************************************************************)
EXTENDS Integers, Sequences, FiniteSets, TLC

\* ---------------------------------------------------------------- bounds
\* bytes the emulator writes to its console in one run
MaxBytes == 3
\* wait calls (ConsoleExpect / ConsoleExpectRE) the caller makes in one run
MaxCalls == 2
\* termination calls (Kill / Shutdown) the caller makes in one run
MaxTerm == 2
\* the same two bounds in the runs the progress properties are checked on
LiveBytes == 3
LiveCalls == 1
\* bytes the emulator writes in the runs with a lone escape byte
CarryBytes == 3

\* bytes the emulator writes in the runs with a pattern without groups
GroupBytes == 2

\* ConsoleWrite calls, and the bytes the emulator writes in the runs with
\* ConsoleWrite
MaxWrites == 1
WriteBytes == 2
\* the same two bounds in the runs of a whole session, from NewQemu on
LifeBytes == 1
LifeCalls == 1

\* ------------------------------------------------------ program constants
\* var buf [4096]byte
BufSize == 4096
\* const asciiSeqMaxLength = 30
asciiSeqMaxLength == 30

\* ------------------------------------------------------- byte-slice helpers
NL == "NL"
ESC == "ESC"

Digits == {"0", "1", "2", "3", "4", "5", "6", "7", "8", "9"}

\* s[from:] of Go, with from counted from 0
SliceFrom(s, from) == SubSeq(s, from + 1, Len(s))

\* s[:to] of Go, with to counted from 0
SliceTo(s, to) == SubSeq(s, 1, to)

\* bytes.IndexByte(s, b): 0-based index of the first b in s, -1 if none
IndexByte(s, b) ==
  IF \E i \in 1..Len(s) : s[i] = b
    THEN (CHOOSE i \in 1..Len(s) : s[i] = b /\ \A j \in 1..(i - 1) : s[j] # b) - 1
    ELSE -1

\* bytes.LastIndexByte(s, b): 0-based index of the last b in s, -1 if none
LastIndexByte(s, b) ==
  IF \E i \in 1..Len(s) : s[i] = b
    THEN (CHOOSE i \in 1..Len(s) : s[i] = b /\ \A j \in (i + 1)..Len(s) : s[j] # b) - 1
    ELSE -1

\* does sub occur in s at 1-based position i
OccursAt(s, sub, i) ==
  /\ i >= 1
  /\ i + Len(sub) - 1 <= Len(s)
  /\ \A j \in 1..Len(sub) : s[i + j - 1] = sub[j]

\* bytes.Contains(s, sub)
Contains(s, sub) == \E i \in 1..(Len(s) + 1) : OccursAt(s, sub, i)

\* ------------------------------------------------- escape-sequence filter
\* length of the longest run of bytes of the set cls in s from position i
RECURSIVE RunLen(_, _, _)
RunLen(s, i, cls) ==
  IF i <= Len(s) /\ s[i] \in cls THEN 1 + RunLen(s, i + 1, cls) ELSE 0

\* length of the match of \[(\d+;\d+H|=3h|[\d;]+m|\?7l|2J|K) whose '[' is at
\* position i of s; 0 when there is none
CsiMatchLen(s, i) ==
  LET j == i + 1
      d1 == RunLen(s, j, Digits)
      d2 == RunLen(s, j + d1 + 1, Digits)
      r == RunLen(s, j, Digits \cup {";"})
  IN  IF d1 >= 1 /\ OccursAt(s, <<";">>, j + d1) /\ d2 >= 1
         /\ OccursAt(s, <<"H">>, j + d1 + 1 + d2)
        THEN 1 + d1 + 1 + d2 + 1
      ELSE IF OccursAt(s, <<"=", "3", "h">>, j) THEN 4
      ELSE IF r >= 1 /\ OccursAt(s, <<"m">>, j + r) THEN 1 + r + 1
      ELSE IF OccursAt(s, <<"?", "7", "l">>, j) THEN 4
      ELSE IF OccursAt(s, <<"2", "J">>, j) THEN 3
      ELSE IF OccursAt(s, <<"K">>, j) THEN 2
      ELSE 0

\* an expression without the alternatives c and M: \x1b\[(...)
ansiReMatchLenCsiOnly(s, i) ==
  IF ~OccursAt(s, <<ESC>>, i) THEN 0
  ELSE IF OccursAt(s, <<"[">>, i + 1) /\ CsiMatchLen(s, i + 1) > 0
    THEN 1 + CsiMatchLen(s, i + 1)
  ELSE 0

\* length of the match of ansiRe at position i of s; 0 when there is none
\* ansiRe = \x1b(c|M|\[(\d+;\d+H|=3h|[\d;]+m|\?7l|2J|K))
ansiReMatchLen(s, i) ==
  IF ~OccursAt(s, <<ESC>>, i) THEN 0
  ELSE IF OccursAt(s, <<"c">>, i + 1) \/ OccursAt(s, <<"M">>, i + 1) THEN 2
  ELSE IF OccursAt(s, <<"[">>, i + 1) /\ CsiMatchLen(s, i + 1) > 0
    THEN 1 + CsiMatchLen(s, i + 1)
  ELSE 0

\* ansiRe.ReplaceAll(s, []byte{}) from position i on: every leftmost,
\* non-overlapping match is removed
RECURSIVE ReplaceAllFrom(_, _)
ReplaceAllFrom(s, i) ==
  IF i > Len(s) THEN <<>>
  ELSE IF ansiReMatchLen(s, i) > 0 THEN ReplaceAllFrom(s, i + ansiReMatchLen(s, i))
  ELSE <<s[i]>> \o ReplaceAllFrom(s, i + 1)

ansiReReplaceAll(s) == ReplaceAllFrom(s, 1)

\* a filtering that never carries a tail over to the next read
PumpFilterNoCarry(data) ==
  IF ~Contains(data, <<ESC>>) THEN [toPrint |-> data, keep |-> <<>>]
  ELSE [toPrint |-> ansiReReplaceAll(data), keep |-> <<>>]

\* a filtering that does not reset dataLength after plain text: the bytes
\* delivered stay in buf and are delivered again with the next read
PumpFilterNoReset(data) ==
  IF ~Contains(data, <<ESC>>) THEN [toPrint |-> data, keep |-> data]
  ELSE LET replaced == ansiReReplaceAll(data)
           asciiStart == LastIndexByte(replaced, ESC)
       IN  IF asciiStart # -1 /\ Len(replaced) - asciiStart < asciiSeqMaxLength
             THEN [toPrint |-> SliceTo(replaced, asciiStart),
                   keep |-> SliceFrom(replaced, asciiStart)]
             ELSE [toPrint |-> replaced, keep |-> <<>>]

\* a filtering that carries a tail of up to asciiSeqMaxLength bytes
PumpFilterCarryUpTo(data) ==
  IF ~Contains(data, <<ESC>>) THEN [toPrint |-> data, keep |-> <<>>]
  ELSE LET replaced == ansiReReplaceAll(data)
           asciiStart == LastIndexByte(replaced, ESC)
       IN  IF asciiStart # -1 /\ Len(replaced) - asciiStart <= asciiSeqMaxLength
             THEN [toPrint |-> SliceTo(replaced, asciiStart),
                   keep |-> SliceFrom(replaced, asciiStart)]
             ELSE [toPrint |-> replaced, keep |-> <<>>]

\* the filtering of one pump read: data is buf[:dataLength] after the read
\* (carried tail followed by the bytes just read).  Result: the bytes to
\* append to the line buffer and the tail kept in buf for the next read.
PumpFilter(data) ==
  IF ~Contains(data, <<ESC>>) THEN [toPrint |-> data, keep |-> <<>>]
  ELSE LET replaced == ansiReReplaceAll(data)
           asciiStart == LastIndexByte(replaced, ESC)
       IN  IF asciiStart # -1 /\ Len(replaced) - asciiStart < asciiSeqMaxLength
             THEN [toPrint |-> SliceTo(replaced, asciiStart),
                   keep |-> SliceFrom(replaced, asciiStart)]
             ELSE [toPrint |-> replaced, keep |-> <<>>]

\* ------------------------------------------------------- matcher predicates
\* A pattern of ConsoleExpectRE is modelled as a literal followed by
\* `groups` capturing groups "(.)", each capturing one byte other than '\n':
\* [lit |-> <<"A">>, groups |-> 2] is the regexp A(.)(.)
PatLen(pat) == Len(pat.lit) + pat.groups

\* does pat match data at position i
PatMatchesAt(pat, data, i) ==
  /\ OccursAt(data, pat.lit, i)
  /\ i + PatLen(pat) - 1 <= Len(data)
  /\ \A g \in 1..pat.groups : data[i + Len(pat.lit) + g - 1] # NL

\* the submatch slice of one match at position i: the whole match followed
\* by one entry per capturing group (s[0], s[1], ... of Go)
Submatch(pat, data, i) ==
  <<SubSeq(data, i, i + PatLen(pat) - 1)>> \o
  [g \in 1..pat.groups |-> <<data[i + Len(pat.lit) + g - 1]>>]

\* re.FindAllSubmatch(data, -1): the submatches of the successive leftmost,
\* non-overlapping matches; the empty sequence stands for nil
RECURSIVE FindAllFrom(_, _, _)
FindAllFrom(pat, data, i) ==
  IF i > Len(data) THEN <<>>
  ELSE IF PatMatchesAt(pat, data, i)
    THEN <<Submatch(pat, data, i)>> \o FindAllFrom(pat, data, i + PatLen(pat))
  ELSE FindAllFrom(pat, data, i + 1)

FindAllSubmatch(pat, data) == FindAllFrom(pat, data, 1)

\* a collection that takes s[0], the whole match, instead of s[1]
RECURSIVE CollectWholeMatches(_)
CollectWholeMatches(m) ==
  IF m = <<>> THEN <<>> ELSE <<Head(m)[1]>> \o CollectWholeMatches(Tail(m))

\* for _, s := range m { matches = append(matches, string(s[1])) }
\* s[1] of Go is the second entry of the submatch slice
RECURSIVE CollectFirstGroups(_)
CollectFirstGroups(m) ==
  IF m = <<>> THEN <<>> ELSE <<Head(m)[2]>> \o CollectFirstGroups(Tail(m))

\* the closure p of ConsoleExpect / ConsoleExpectRE applied to one fragment.
\* Result: whether it matched, the new value of the captured variable
\* `matches`, and whether evaluating s[1] panicked (index out of range).
Processor(proc, data, matchesIn) ==
  IF proc.kind = "lit"
    THEN [matched |-> Contains(data, proc.target), matches |-> matchesIn, panic |-> FALSE]
  ELSE LET m == FindAllSubmatch(proc.pat, data)
       IN  IF m = <<>>
             THEN [matched |-> FALSE, matches |-> matchesIn, panic |-> FALSE]
           ELSE IF proc.pat.groups = 0
             THEN [matched |-> FALSE, matches |-> matchesIn, panic |-> TRUE]
           ELSE [matched |-> TRUE, matches |-> matchesIn \o CollectFirstGroups(m),
                 panic |-> FALSE]

\* ------------------------------------------------------------ inputs
\* the bytes the emulator may write to its console
Bytes == {"A", "B", NL, ESC}

Lit(t) == [kind |-> "lit", target |-> t]
Re(l, k) == [kind |-> "re", pat |-> [lit |-> l, groups |-> k]]

\* the expectations the caller may wait for: the literal "AB" and the
\* patterns (.) and A(.)(.)
Expectations ==
  {Lit(<<"A", "B">>), Re(<<>>, 1), Re(<<"A">>, 2)}

\* one encoding of each control sequence of ansiRe, and two with longer
\* parameters
CoveredSequences ==
  { <<ESC, "c">>, <<ESC, "M">>,
    <<ESC, "[", "1", ";", "2", "H">>, <<ESC, "[", "1", "2", ";", "1", "H">>,
    <<ESC, "[", "=", "3", "h">>,
    <<ESC, "[", "1", "m">>, <<ESC, "[", "0", ";", "1", "m">>,
    <<ESC, "[", "?", "7", "l">>,
    <<ESC, "[", "2", "J">>,
    <<ESC, "[", "K">> }

\* a sequence of the form ESC[...m that is longer than asciiSeqMaxLength
LongSequence ==
  <<ESC, "[">> \o [i \in 1..(asciiSeqMaxLength - 2) |-> "1"] \o <<"m">>

\* console outputs made of plain text and complete control sequences, each
\* with the plain text it contains
GrammarInputs ==
  {[script |-> <<"A">> \o s \o <<"B">>, plain |-> <<"A", "B">>] :
     s \in CoveredSequences}
  \cup {[script |-> <<"A">> \o s \o <<"B">> \o t \o <<NL>>,
         plain |-> <<"A", "B", NL>>] : s, t \in CoveredSequences}

LongInputs ==
  {[script |-> <<"A">> \o LongSequence \o <<"B">>, plain |-> <<"A", "B">>]}

\* the strings the caller may pass to ConsoleWrite
WriteInputs == {<<"A">>, <<"A", NL>>}

\* a target that ends with the line terminator, and one that goes over it
\* into the next line
LineTarget == <<"A", NL>>
SpanTarget == <<NL, "A">>

\* the two places that receive from waitCh
Receivers == {"NewQemu", "wait"}

\* what a session owns and releases
Resources ==
  {"console", "consoleListener", "monitor", "monitorListener", "socketsDir", "ctx"}

\* ------------------------------------------------------------ state
VARIABLES
  \* -- session (type Qemu and the locals of NewQemu)
  nqPc,               \* position of the NewQemu call
  retQemu,            \* NewQemu returned a non-nil *Qemu
  retErr,             \* the error NewQemu returned ("none" before it returns)
  socketsDir,         \* temporary directory
  monitorListener, consoleListener,
  monitor, console,   \* accepted connections
  monitorBacklog, consoleBacklog, \* emulator connected, not yet accepted
  ctx,                \* deadline context
  cmd, exitErr,       \* emulator process and the result of cmd.Wait()
  watcherPc,          \* position of the exit-watcher goroutine
  waitCh,             \* chan error, capacity 1
  sent,               \* history: sends on waitCh
  received,           \* history: receives from waitCh, per receiver
  termPc, termKind, termCalls, \* Kill / Shutdown call of the caller
  monitorWrite,       \* outcome of the last write on the monitor
  released,           \* release operations made by the caller, per resource
  releasedByWatcher,  \* release operations made by the exit watcher
  \* -- console transport
  peer,               \* emulator end of the console: "open", "eof", "err"
  budget,             \* bytes the emulator may still write
  stream,             \* history: every byte the pump has read so far
  charset,            \* the bytes the emulator writes in this run
  script,             \* or, when not empty, its whole output in this run
  menu,               \* the expectations the caller waits for in this run
  callLimit,          \* the wait calls the caller makes in this run
  \* -- ConsoleWrite
  written,            \* history: every byte written on the console connection
  writeCalls,         \* completed ConsoleWrite calls
  lastWrite,          \* argument and result of the last ConsoleWrite
  \* -- pump (consolePump)
  pumpPc, pumpBuf,    \* pumpBuf is buf[:dataLength]
  toPrint, num, readErr,
  appended,           \* history: every byte appended to consoleData so far
  \* -- line buffer
  consolePumpMutex, consoleData, consoleDataArrived, consoleDataEOF,
  \* -- matcher (consoleProcess and its callers)
  wPc, processor, buf, matches, toProcess, newLine,
  calls,              \* completed wait calls
  result, retMatches, \* what the last completed wait call returned
  consumed,           \* bytes dropped from buf by completed wait calls
  dropped,            \* bytes dropped from buf by the call in progress
  raced               \* a re-buffer found bytes appended since its drain

sessionVars ==
  <<nqPc, retQemu, retErr, socketsDir, monitorListener, consoleListener,
    monitor, console, monitorBacklog, consoleBacklog, ctx, cmd, exitErr,
    watcherPc, waitCh, termPc, termKind, termCalls, monitorWrite, released,
    releasedByWatcher>>

\* the history of waitCh
chanVars == <<sent, received>>

wireVars == <<peer, budget, stream>>

\* fixed in a run: what the emulator and the caller do in it
runVars == <<charset, script, menu, callLimit>>

writeVars == <<written, writeCalls, lastWrite>>

pumpVars == <<pumpPc, pumpBuf, toPrint, num, readErr, appended>>

bufferVars == <<consoleData, consoleDataArrived, consoleDataEOF>>

matcherVars ==
  <<wPc, processor, buf, matches, toProcess, newLine, calls, result,
    retMatches, consumed, dropped, raced>>

vars ==
  <<sessionVars, chanVars, wireVars, runVars, writeVars, pumpVars,
    consolePumpMutex, bufferVars, matcherVars>>

Min(a, b) == IF a < b THEN a ELSE b

\* ------------------------------------------------------------ pump
\* the byte strings of 1..n bytes a read may return in this run: any
\* bytes of charset, or what comes next in script
Chunks(n) ==
  IF script = <<>>
    THEN UNION {[1..k -> charset] : k \in 1..n}
    ELSE LET pos == Len(script) - budget
         IN  {SubSeq(script, pos + 1, pos + k) : k \in 1..n}

\* a Read that returns nothing and no error on a closed connection
ReadOutcomesClosedSilent ==
  IF console = "closed" THEN {[data |-> <<>>, err |-> "nil"]}
  ELSE LET room == Min(budget, BufSize - Len(pumpBuf))
           end == IF peer = "eof" THEN "EOF" ELSE "other"
       IN  {[data |-> c, err |-> "nil"] : c \in Chunks(room)}
           \cup (IF peer = "open"
                   THEN {[data |-> <<>>, err |-> "nil"]}
                   ELSE {[data |-> c, err |-> end] : c \in Chunks(room) \cup {<<>>}})

\* what q.console.Read(buf[dataLength:]) may return: the bytes read and
\* the error ("nil", "EOF", "other"). A read returns bytes the emulator
\* wrote and no error; or nothing and no error while the emulator's end
\* is open; or, once that end has ended, the error, with the last bytes
\* or without. On the closed connection it fails at once.
ReadOutcomes ==
  IF console = "closed" THEN {[data |-> <<>>, err |-> "other"]}
  ELSE LET room == Min(budget, BufSize - Len(pumpBuf))
           end == IF peer = "eof" THEN "EOF" ELSE "other"
       IN  {[data |-> c, err |-> "nil"] : c \in Chunks(room)}
           \cup (IF peer = "open"
                   THEN {[data |-> <<>>, err |-> "nil"]}
                   ELSE {[data |-> c, err |-> end] : c \in Chunks(room) \cup {<<>>}})

\* num, err := q.console.Read(buf[dataLength:]) and, when num > 0, the
\* filtering of buf[:dataLength] up to the Lock
PumpRead ==
  /\ pumpPc = "read"
  /\ \E r \in ReadOutcomes :
       LET f == PumpFilter(pumpBuf \o r.data)
       IN  /\ budget' = budget - Len(r.data)
           /\ stream' = stream \o r.data
           /\ num' = Len(r.data)
           /\ readErr' = r.err
           /\ IF Len(r.data) > 0
                THEN /\ toPrint' = f.toPrint
                     /\ pumpBuf' = f.keep
                     /\ pumpPc' = "lock"
                ELSE /\ UNCHANGED <<toPrint, pumpBuf>>
                     /\ pumpPc' = "checkErr"
  /\ UNCHANGED <<chanVars, writeVars, sessionVars, runVars, peer, appended, consolePumpMutex,
                 bufferVars, matcherVars>>

\* q.consolePumpMutex.Lock()
PumpLock ==
  /\ pumpPc = "lock"
  /\ consolePumpMutex = "free"
  /\ consolePumpMutex' = "pump"
  /\ pumpPc' = "append"
  /\ UNCHANGED <<chanVars, writeVars, sessionVars, runVars, wireVars, pumpBuf, toPrint, num, readErr,
                 appended, bufferVars, matcherVars>>

\* q.consoleData = append(q.consoleData, toPrint...)
PumpAppendTo(data, bytes) == data \o bytes

\* a critical section without the Unlock
PumpAppendKeepsLock ==
  /\ pumpPc = "append"
  /\ consolePumpMutex = "pump"
  /\ consoleData' = PumpAppendTo(consoleData, toPrint)
  /\ consoleDataArrived' = TRUE
  /\ appended' = appended \o toPrint
  /\ consolePumpMutex' = "pump"
  /\ toPrint' = <<>>
  /\ pumpPc' = "checkErr"
  /\ UNCHANGED <<chanVars, writeVars, sessionVars, runVars, wireVars, pumpBuf, num, readErr,
                 consoleDataEOF, matcherVars>>

\* the critical section of the pump, up to Unlock
PumpAppend ==
  /\ pumpPc = "append"
  /\ consolePumpMutex = "pump"
  /\ consoleData' = PumpAppendTo(consoleData, toPrint)
  /\ consoleDataArrived' = TRUE
  /\ appended' = appended \o toPrint
  /\ consolePumpMutex' = "free"
  /\ toPrint' = <<>>
  /\ pumpPc' = "checkErr"
  /\ UNCHANGED <<chanVars, writeVars, sessionVars, runVars, wireVars, pumpBuf, num, readErr,
                 consoleDataEOF, matcherVars>>

\* a pump that never raises the stream-ended flag
PumpEOFFlagNever(err, flag) == flag

\* the stream-ended flag after a read that failed with err
PumpEOFFlag(err, flag) == IF err = "EOF" THEN TRUE ELSE flag

\* if err != nil { ... return }; if num == 0 { sleep }
PumpCheckErr ==
  /\ pumpPc = "checkErr"
  /\ IF readErr # "nil"
       THEN /\ consoleDataEOF' = PumpEOFFlag(readErr, consoleDataEOF)
            /\ pumpPc' = "done"
       ELSE /\ UNCHANGED consoleDataEOF
            /\ pumpPc' = IF num = 0 THEN "sleep" ELSE "read"
  /\ num' = 0
  /\ UNCHANGED <<chanVars, writeVars, sessionVars, runVars, wireVars, pumpBuf, toPrint, readErr, appended,
                 consolePumpMutex, consoleData, consoleDataArrived, matcherVars>>

\* time.Sleep(50 * time.Millisecond) after a zero-byte read
PumpSleep ==
  /\ pumpPc = "sleep"
  /\ pumpPc' = "read"
  /\ UNCHANGED <<chanVars, writeVars, sessionVars, runVars, wireVars, pumpBuf, toPrint, num, readErr,
                 appended, consolePumpMutex, bufferVars, matcherVars>>

\* ------------------------------------------------------------ matcher
\* the session can be used by the caller: NewQemu returned it and the
\* caller is not inside Kill or Shutdown
CallerFree == nqPc = "returned" /\ retQemu /\ termPc = "idle"

\* a call whose `matches` starts from what the previous call returned
WaitCallKeepsMatches ==
  /\ CallerFree
  /\ wPc = "idle"
  /\ calls < callLimit
  /\ \E e \in menu : processor' = e
  /\ wPc' = "lock"
  /\ buf' = <<>>
  /\ matches' = retMatches
  /\ toProcess' = <<>>
  /\ newLine' = FALSE
  /\ UNCHANGED <<chanVars, writeVars, sessionVars, runVars, wireVars, pumpVars, consolePumpMutex, bufferVars,
                 calls, result, retMatches, consumed, dropped, raced>>

\* ConsoleExpect(str) or ConsoleExpectRE(re) is called: var buf []byte,
\* var matches []string
WaitCall ==
  /\ CallerFree
  /\ wPc = "idle"
  /\ calls < callLimit
  /\ \E e \in menu : processor' = e
  /\ wPc' = "lock"
  /\ buf' = <<>>
  /\ matches' = <<>>
  /\ toProcess' = <<>>
  /\ newLine' = FALSE
  /\ UNCHANGED <<chanVars, writeVars, sessionVars, runVars, wireVars, pumpVars, consolePumpMutex, bufferVars,
                 calls, result, retMatches, consumed, dropped, raced>>

\* q.consolePumpMutex.Lock() at the top of the loop
WaitLock ==
  /\ wPc = "lock"
  /\ consolePumpMutex = "free"
  /\ consolePumpMutex' = "matcher"
  /\ wPc' = "drain"
  /\ UNCHANGED <<chanVars, writeVars, sessionVars, runVars, wireVars, pumpVars, bufferVars, processor, buf,
                 matches, toProcess, newLine, calls, result, retMatches,
                 consumed, dropped, raced>>

\* a drain that forgets what the call still held: buf = q.consoleData
DrainIntoLosesTail(local, data) == data

\* buf = append(buf, q.consoleData...)
DrainInto(local, data) == local \o data

\* the return of a wait call with error err and the captures ms; local is
\* what its buf held, which ends with the call
WaitReturn(err, ms, local) ==
  /\ wPc' = "idle"
  /\ calls' = calls + 1
  /\ result' = err
  /\ retMatches' = ms
  /\ consumed' = consumed \o dropped \o local
  /\ dropped' = <<>>
  /\ buf' = <<>>
  /\ matches' = <<>>
  /\ toProcess' = <<>>
  /\ newLine' = FALSE

\* a drain that also clears the stream-ended flag
WaitDrainClearsEOF ==
  /\ wPc = "drain"
  /\ consolePumpMutex = "matcher"
  /\ consolePumpMutex' = "free"
  /\ consoleData' = <<>>
  /\ consoleDataArrived' = FALSE
  /\ consoleDataEOF' = FALSE
  /\ IF consoleDataArrived
       THEN /\ buf' = DrainInto(buf, consoleData)
            /\ wPc' = "scan"
            /\ UNCHANGED <<matches, toProcess, newLine, calls, result,
                           retMatches, consumed, dropped>>
       ELSE IF consoleDataEOF
         THEN WaitReturn("EOF", <<>>, DrainInto(buf, consoleData))
       ELSE /\ buf' = DrainInto(buf, consoleData)
            /\ wPc' = "sleep"
            /\ UNCHANGED <<matches, toProcess, newLine, calls, result,
                           retMatches, consumed, dropped>>
  /\ UNCHANGED <<chanVars, writeVars, sessionVars, runVars, wireVars, pumpVars, processor, raced>>

\* a drain that looks at the stream-ended flag before the data-arrived flag
WaitDrainEOFFirst ==
  /\ wPc = "drain"
  /\ consolePumpMutex = "matcher"
  /\ consolePumpMutex' = "free"
  /\ consoleData' = <<>>
  /\ consoleDataArrived' = FALSE
  /\ UNCHANGED consoleDataEOF
  /\ IF consoleDataEOF
       THEN WaitReturn("EOF", <<>>, DrainInto(buf, consoleData))
       ELSE IF consoleDataArrived
         THEN /\ buf' = DrainInto(buf, consoleData)
              /\ wPc' = "scan"
              /\ UNCHANGED <<matches, toProcess, newLine, calls, result,
                             retMatches, consumed, dropped>>
       ELSE /\ buf' = DrainInto(buf, consoleData)
            /\ wPc' = "sleep"
            /\ UNCHANGED <<matches, toProcess, newLine, calls, result,
                           retMatches, consumed, dropped>>
  /\ UNCHANGED <<chanVars, writeVars, sessionVars, runVars, wireVars, pumpVars, processor, raced>>

\* the drain under the lock and the branch on newDataArrived /
\* consoleDataEOF that follows the Unlock
WaitDrain ==
  /\ wPc = "drain"
  /\ consolePumpMutex = "matcher"
  /\ consolePumpMutex' = "free"
  /\ consoleData' = <<>>
  /\ consoleDataArrived' = FALSE
  /\ UNCHANGED consoleDataEOF
  /\ IF consoleDataArrived
       THEN /\ buf' = DrainInto(buf, consoleData)
            /\ wPc' = "scan"
            /\ UNCHANGED <<matches, toProcess, newLine, calls, result,
                           retMatches, consumed, dropped>>
       ELSE IF consoleDataEOF
         THEN WaitReturn("EOF", <<>>, DrainInto(buf, consoleData))
       ELSE /\ buf' = DrainInto(buf, consoleData)
            /\ wPc' = "sleep"
            /\ UNCHANGED <<matches, toProcess, newLine, calls, result,
                           retMatches, consumed, dropped>>
  /\ UNCHANGED <<chanVars, writeVars, sessionVars, runVars, wireVars, pumpVars, processor, raced>>

\* time.Sleep(50 * time.Millisecond) when nothing arrived
WaitSleep ==
  /\ wPc = "sleep"
  /\ wPc' = "lock"
  /\ UNCHANGED <<chanVars, writeVars, sessionVars, runVars, wireVars, pumpVars, consolePumpMutex, bufferVars,
                 processor, buf, matches, toProcess, newLine, calls, result,
                 retMatches, consumed, dropped, raced>>

\* a cut that advances buf over every examined fragment, terminated or not
NextFragmentDropsTail(local) ==
  LET i == IndexByte(local, NL)
      idx == IF i = -1 THEN Len(local) ELSE i + 1
  IN  [toProcess |-> SliceTo(local, idx),
       newLine |-> i # -1,
       rest |-> SliceFrom(local, idx)]

\* a cut that offers only whole lines: nothing until a '\n' is there
NextFragmentLinesOnly(local) ==
  LET i == IndexByte(local, NL)
      idx == IF i = -1 THEN 0 ELSE i + 1
      nl == i # -1
  IN  [toProcess |-> SliceTo(local, idx),
       newLine |-> nl,
       rest |-> IF nl THEN SliceFrom(local, idx) ELSE local]

\* a cut that offers everything the call holds as one fragment
NextFragmentWholeBuffer(local) ==
  [toProcess |-> local, newLine |-> FALSE, rest |-> local]

\* a cut that leaves an examined line at the front of buf
NextFragmentKeepsLine(local) ==
  LET i == IndexByte(local, NL)
      idx == IF i = -1 THEN Len(local) ELSE i + 1
  IN  [toProcess |-> SliceTo(local, idx),
       newLine |-> i # -1,
       rest |-> local]

\* the candidate fragment cut from the local buffer: idx, newLine,
\* toProcess and the buffer after "if newLine { buf = buf[idx:] }"
NextFragment(local) ==
  LET i == IndexByte(local, NL)
      idx == IF i = -1 THEN Len(local) ELSE i + 1
      nl == i # -1
  IN  [toProcess |-> SliceTo(local, idx),
       newLine |-> nl,
       rest |-> IF nl THEN SliceFrom(local, idx) ELSE local]

\* one iteration of the inner loop: cut the next fragment and evaluate the
\* predicate on it
WaitScan ==
  /\ wPc = "scan"
  /\ LET fr == NextFragment(buf)
         p == Processor(processor, fr.toProcess, matches)
     IN  /\ toProcess' = fr.toProcess
         /\ newLine' = fr.newLine
         /\ buf' = fr.rest
         /\ dropped' = IF fr.newLine THEN dropped \o fr.toProcess ELSE dropped
         /\ matches' = p.matches
         /\ wPc' = IF p.panic THEN "panic"
                   ELSE IF p.matched THEN "relock"
                   ELSE IF fr.newLine THEN "scan"
                   ELSE "lock"
  /\ UNCHANGED <<chanVars, writeVars, sessionVars, runVars, wireVars, pumpVars, consolePumpMutex, bufferVars,
                 processor, calls, result, retMatches, consumed, raced>>

\* q.consolePumpMutex.Lock() after a match
WaitRelock ==
  /\ wPc = "relock"
  /\ consolePumpMutex = "free"
  /\ consolePumpMutex' = "matcher"
  /\ wPc' = "rebuffer"
  /\ UNCHANGED <<chanVars, writeVars, sessionVars, runVars, wireVars, pumpVars, bufferVars, processor, buf,
                 matches, toProcess, newLine, calls, result, retMatches,
                 consumed, dropped, raced>>

\* a re-buffer that puts the remainder behind the newer bytes
RebufferBehind(local, data) == data \o local

\* q.consoleData = append(buf, q.consoleData...)
Rebuffer(local, data) == local \o data

\* what ConsoleExpect / ConsoleExpectRE return after consoleProcess
\* returned nil
ReturnedMatches(proc, ms) == IF proc.kind = "re" THEN ms ELSE <<>>

\* a re-buffering that leaves the data-arrived flag as it is
WaitRebufferNoFlag ==
  /\ wPc = "rebuffer"
  /\ consolePumpMutex = "matcher"
  /\ consoleData' = Rebuffer(buf, consoleData)
  /\ consoleDataArrived' = consoleDataArrived
  /\ UNCHANGED consoleDataEOF
  /\ consolePumpMutex' = "free"
  /\ raced' = (raced \/ (buf # <<>> /\ consoleData # <<>>))
  /\ LET ms == ReturnedMatches(processor, matches)
     IN  /\ wPc' = "idle"
         /\ calls' = calls + 1
         /\ result' = "nil"
         /\ retMatches' = ms
         /\ consumed' = consumed \o dropped
         /\ dropped' = <<>>
         /\ buf' = <<>>
         /\ matches' = <<>>
  /\ UNCHANGED <<chanVars, writeVars, sessionVars, runVars, wireVars, pumpVars, processor, toProcess, newLine>>

\* the re-buffering under the lock, the Unlock and the return of the call
WaitRebuffer ==
  /\ wPc = "rebuffer"
  /\ consolePumpMutex = "matcher"
  /\ consoleData' = Rebuffer(buf, consoleData)
  /\ consoleDataArrived' = TRUE
  /\ UNCHANGED consoleDataEOF
  /\ consolePumpMutex' = "free"
  /\ raced' = (raced \/ (buf # <<>> /\ consoleData # <<>>))
  /\ LET ms == ReturnedMatches(processor, matches)
     IN  /\ wPc' = "idle"
         /\ calls' = calls + 1
         /\ result' = "nil"
         /\ retMatches' = ms
         /\ consumed' = consumed \o dropped
         /\ dropped' = <<>>
         /\ buf' = <<>>
         /\ matches' = <<>>
  /\ UNCHANGED <<chanVars, writeVars, sessionVars, runVars, wireVars, pumpVars, processor, toProcess, newLine>>

\* ------------------------------------------------- console environment
\* the console transport ends: the emulator's end is closed (reads reach
\* end-of-file) or the connection fails (reads return another error)
ConsoleEnds ==
  /\ (console = "open" \/ consoleBacklog)
  /\ peer = "open"
  /\ peer' \in {"eof", "err"}
  /\ UNCHANGED <<chanVars, writeVars, sessionVars, runVars, budget, stream, pumpVars, consolePumpMutex,
                 bufferVars, matcherVars>>

\* ------------------------------------------------------- ConsoleWrite
\* before the first ConsoleWrite
NoWrite == [str |-> <<>>, err |-> "none", mutex |-> "none"]

\* what a write of str on the console connection may do: all of str is
\* written and the error is nil, or a part of it and the write fails; on
\* a closed connection nothing is written
WriteOutcomes(str) ==
  {[n |-> k, err |-> "other"] :
     k \in (IF console = "open" THEN 0..(Len(str) - 1) ELSE {0})}
  \cup (IF console = "open" THEN {[n |-> Len(str), err |-> "nil"]} ELSE {})

\* a ConsoleWrite that takes the buffer lock around the write
ConsoleWriteLocked ==
  /\ nqPc = "returned" /\ retQemu
  /\ consolePumpMutex = "free"
  /\ writeCalls < MaxWrites
  /\ \E str \in WriteInputs : \E w \in WriteOutcomes(str) :
       /\ written' = written \o SliceTo(str, w.n)
       /\ lastWrite' = [str |-> str, err |-> w.err, mutex |-> consolePumpMutex]
  /\ writeCalls' = writeCalls + 1
  /\ UNCHANGED <<chanVars, sessionVars, wireVars, runVars, pumpVars, consolePumpMutex,
                 bufferVars, matcherVars>>

\* _, err := q.console.Write([]byte(str)); return err.  Any goroutine of
\* the caller may call it at any time on a session NewQemu returned.
ConsoleWrite ==
  /\ nqPc = "returned" /\ retQemu
  /\ writeCalls < MaxWrites
  /\ \E str \in WriteInputs : \E w \in WriteOutcomes(str) :
       /\ written' = written \o SliceTo(str, w.n)
       /\ lastWrite' = [str |-> str, err |-> w.err, mutex |-> consolePumpMutex]
  /\ writeCalls' = writeCalls + 1
  /\ UNCHANGED <<chanVars, sessionVars, wireVars, runVars, pumpVars, consolePumpMutex,
                 bufferVars, matcherVars>>

\* --------------------------------------------------- console engine alone
\* a session as NewQemu returns it, with the pump started
RunningSession ==
  /\ nqPc = "returned" /\ retQemu = TRUE /\ retErr = "nil"
  /\ socketsDir = "exists"
  /\ monitorListener = "open" /\ consoleListener = "open"
  /\ monitor = "open" /\ console = "open"
  /\ monitorBacklog = FALSE /\ consoleBacklog = FALSE
  /\ ctx = "armed" /\ cmd = "running" /\ exitErr = "none"
  /\ watcherPc = "wait" /\ waitCh = <<>>
  /\ sent = 0 /\ received = [p \in Receivers |-> 0]
  /\ termPc = "idle" /\ termKind = "none" /\ termCalls = 0
  /\ monitorWrite = "none"
  /\ released = [r \in Resources |-> 0]
  /\ releasedByWatcher = [r \in Resources |-> 0]

EngineInit ==
  /\ peer = "open" /\ stream = <<>>
  /\ written = <<>> /\ writeCalls = 0 /\ lastWrite = NoWrite
  /\ pumpBuf = <<>> /\ toPrint = <<>> /\ num = 0 /\ readErr = "nil"
  /\ appended = <<>>
  /\ consolePumpMutex = "free"
  /\ consoleData = <<>> /\ consoleDataArrived = FALSE /\ consoleDataEOF = FALSE
  /\ wPc = "idle" /\ processor = Lit(<<>>) /\ buf = <<>> /\ matches = <<>>
  /\ toProcess = <<>> /\ newLine = FALSE /\ calls = 0
  /\ result = "none" /\ retMatches = <<>>
  /\ consumed = <<>> /\ dropped = <<>> /\ raced = FALSE

InitConsole ==
  /\ RunningSession
  /\ EngineInit
  /\ pumpPc = "read"
  /\ budget = MaxBytes
  /\ charset = Bytes /\ script = <<>>
  /\ menu = Expectations
  /\ callLimit = MaxCalls

\* the runs the progress properties are checked on: plain text and
\* literal expectations
InitConsoleFair ==
  /\ RunningSession
  /\ EngineInit
  /\ pumpPc = "read"
  /\ budget = LiveBytes
  /\ charset = {"A", "B", NL} /\ script = <<>>
  /\ menu = {Lit(<<"A", "B">>)}
  /\ callLimit = LiveCalls

\* the pump alone, on an output of plain text and control sequences; the
\* caller makes no wait call
InitPump ==
  /\ RunningSession
  /\ EngineInit
  /\ pumpPc = "read"
  /\ \E g \in GrammarInputs \cup LongInputs : script = g.script
  /\ budget = Len(script)
  /\ charset = {}
  /\ menu = {}
  /\ callLimit = 0

\* the runs with escape bytes that start no control sequence, under fair
\* scheduling
InitCarry ==
  /\ RunningSession
  /\ EngineInit
  /\ pumpPc = "read"
  /\ budget = CarryBytes
  /\ charset = {"A", ESC, NL} /\ script = <<>>
  /\ menu = {Lit(<<"A">>)}
  /\ callLimit = LiveCalls

\* the runs with a target that ends a line and a target that spans two
\* lines, under fair scheduling
InitSpan ==
  /\ RunningSession
  /\ EngineInit
  /\ pumpPc = "read"
  /\ budget = LiveBytes
  /\ charset = {"A", NL} /\ script = <<>>
  /\ menu = {Lit(LineTarget), Lit(SpanTarget)}
  /\ callLimit = LiveCalls

\* the runs with the patterns A, which has no capturing group, and (.)
InitGroupless ==
  /\ RunningSession
  /\ EngineInit
  /\ pumpPc = "read"
  /\ budget = GroupBytes
  /\ charset = {"A", NL} /\ script = <<>>
  /\ menu = {Re(<<"A">>, 0), Re(<<>>, 1)}
  /\ callLimit = LiveCalls

PumpNext == PumpRead \/ PumpLock \/ PumpAppend \/ PumpCheckErr \/ PumpSleep

MatcherNext ==
  WaitCall \/ WaitLock \/ WaitDrain \/ WaitSleep \/ WaitScan \/ WaitRelock
  \/ WaitRebuffer

NextConsole == PumpNext \/ MatcherNext \/ ConsoleEnds

NextPump == PumpNext \/ ConsoleEnds

\* the console engine with a caller that also writes to the console
InitWrite ==
  /\ RunningSession
  /\ EngineInit
  /\ pumpPc = "read"
  /\ budget = WriteBytes
  /\ charset = {"A", NL} /\ script = <<>>
  /\ menu = {Lit(<<"A">>)}
  /\ callLimit = LiveCalls

NextWrite == PumpNext \/ MatcherNext \/ ConsoleEnds \/ ConsoleWrite

SpecWrite == InitWrite /\ [][NextWrite]_vars

SpecPump == InitPump /\ [][NextPump]_vars

SpecGroupless == InitGroupless /\ [][NextConsole]_vars

SpecConsole == InitConsole /\ [][NextConsole]_vars

\* ------------------------------------------------------------ NewQemu
\* tempDir, err := ioutil.TempDir("", "vmtest")
NewQemuTempDir ==
  /\ nqPc = "tempDir"
  /\ \E ok \in BOOLEAN :
       IF ok THEN /\ socketsDir' = "exists"
                  /\ nqPc' = "listenMonitor"
                  /\ retErr' = retErr
             ELSE /\ socketsDir' = socketsDir
                  /\ nqPc' = "returned"
                  /\ retErr' = "tempDir"
  /\ UNCHANGED <<chanVars, writeVars, retQemu, monitorListener, consoleListener, monitor, console,
                 monitorBacklog, consoleBacklog, ctx, cmd, exitErr, watcherPc,
                 waitCh, termPc, termKind, termCalls, monitorWrite, released,
                 releasedByWatcher, consolePumpMutex, runVars, matcherVars,
                 pumpVars, bufferVars, wireVars>>


\* monitorListener, err := net.Listen("unix", monitorFile)
NewQemuListenMonitor ==
  /\ nqPc = "listenMonitor"
  /\ \E ok \in BOOLEAN :
       IF ok THEN /\ monitorListener' = "open"
                  /\ nqPc' = "listenConsole"
                  /\ retErr' = retErr
             ELSE /\ monitorListener' = monitorListener
                  /\ nqPc' = "returned"
                  /\ retErr' = "listen"
  /\ UNCHANGED <<chanVars, writeVars, retQemu, socketsDir, consoleListener, monitor, console,
                 monitorBacklog, consoleBacklog, ctx, cmd, exitErr, watcherPc,
                 waitCh, termPc, termKind, termCalls, monitorWrite, released,
                 releasedByWatcher, consolePumpMutex, runVars, matcherVars,
                 pumpVars, bufferVars, wireVars>>


\* consoleListener, err := net.Listen("unix", consoleFile)
NewQemuListenConsole ==
  /\ nqPc = "listenConsole"
  /\ \E ok \in BOOLEAN :
       IF ok THEN /\ consoleListener' = "open"
                  /\ nqPc' = "options"
                  /\ retErr' = retErr
             ELSE /\ consoleListener' = consoleListener
                  /\ nqPc' = "returned"
                  /\ retErr' = "listen"
  /\ UNCHANGED <<chanVars, writeVars, retQemu, socketsDir, monitorListener, monitor, console,
                 monitorBacklog, consoleBacklog, ctx, cmd, exitErr, watcherPc,
                 waitCh, termPc, termKind, termCalls, monitorWrite, released,
                 releasedByWatcher, consolePumpMutex, runVars, matcherVars,
                 pumpVars, bufferVars, wireVars>>


\* the command line is built; opts.Kernel == "" && len(opts.Append) > 0
\* is rejected
NewQemuOptions ==
  /\ nqPc = "options"
  /\ \E appendWithoutKernel \in BOOLEAN :
       IF appendWithoutKernel
         THEN /\ nqPc' = "returned"
              /\ retErr' = "options"
         ELSE /\ nqPc' = "start"
              /\ retErr' = retErr
  /\ UNCHANGED <<chanVars, writeVars, retQemu, socketsDir, monitorListener, consoleListener,
                 monitor, console, monitorBacklog, consoleBacklog, ctx, cmd,
                 exitErr, watcherPc, waitCh, termPc, termKind, termCalls,
                 monitorWrite, released, releasedByWatcher, consolePumpMutex,
                 runVars, matcherVars, pumpVars, bufferVars, wireVars>>


\* ctx, ctxCancel := context.WithTimeout(...); cmd.Start(); on failure
\* ctxCancel() and return, otherwise waitCh is made and the exit watcher
\* goroutine started
NewQemuStart ==
  /\ nqPc = "start"
  /\ \E ok \in BOOLEAN :
       IF ok THEN /\ ctx' = "armed"
                  /\ cmd' = "running"
                  /\ watcherPc' = "wait"
                  /\ nqPc' = "acceptMonitor"
                  /\ retErr' = retErr
             ELSE /\ ctx' = "cancelled"
                  /\ cmd' = cmd
                  /\ watcherPc' = watcherPc
                  /\ nqPc' = "returned"
                  /\ retErr' = "start"
  /\ UNCHANGED <<chanVars, writeVars, retQemu, socketsDir, monitorListener, consoleListener,
                 monitor, console, monitorBacklog, consoleBacklog, exitErr,
                 waitCh, termPc, termKind, termCalls, monitorWrite, released,
                 releasedByWatcher, consolePumpMutex, runVars, matcherVars,
                 pumpVars, bufferVars, wireVars>>


\* the failure handling before the exit watcher existed: return nil, err
SelectErrorAcceptOnly(ch) == "accept"

\* the error taken by "select { case waitErr := <-waitCh: ...; default: ... }"
\* after an Accept failed: the value in waitCh if there is one, else the
\* Accept error
SelectError(ch) == IF ch # <<>> THEN Head(ch) ELSE "accept"

\* the receives made so far, after that select
SelectReceived(ch, rc) ==
  IF ch # <<>> THEN [rc EXCEPT !["NewQemu"] = @ + 1] ELSE rc

\* a select that reads the value and leaves it in the channel
SelectDrainKeeps(ch) == ch

\* waitCh after that select
SelectDrain(ch) == IF ch # <<>> THEN Tail(ch) ELSE ch

\* a NewQemu that starts the pump once the monitor is connected
NewQemuAcceptMonitorStartsPump ==
  /\ nqPc = "acceptMonitor"
  /\ \/ /\ monitorListener = "open"
        /\ monitorBacklog
        /\ monitor' = "open"
        /\ monitorBacklog' = FALSE
        /\ nqPc' = "acceptConsole"
        /\ pumpPc' = "read"
        /\ UNCHANGED <<retErr, waitCh, received>>
     \/ /\ nqPc' = "returned"
        /\ retErr' = SelectError(waitCh)
        /\ waitCh' = SelectDrain(waitCh)
        /\ received' = SelectReceived(waitCh, received)
        /\ UNCHANGED <<monitor, monitorBacklog, pumpPc>>
  /\ UNCHANGED sent
  /\ UNCHANGED <<writeVars, retQemu, socketsDir, monitorListener, consoleListener,
                 console, consoleBacklog, ctx, cmd, exitErr, watcherPc,
                 termPc, termKind, termCalls, monitorWrite, released,
                 releasedByWatcher, consolePumpMutex, runVars, matcherVars,
                 pumpBuf, toPrint, num, readErr, appended, bufferVars, wireVars>>

\* monitor, err := monitorListener.Accept() and the select on its failure.
\* Accept succeeds when the emulator has connected; it fails when the
\* listener is closed and, for reasons of the system (e.g. no file
\* descriptor left), at any other time.
NewQemuAcceptMonitor ==
  /\ nqPc = "acceptMonitor"
  /\ \/ /\ monitorListener = "open"
        /\ monitorBacklog
        /\ monitor' = "open"
        /\ monitorBacklog' = FALSE
        /\ nqPc' = "acceptConsole"
        /\ UNCHANGED <<retErr, waitCh, received>>
     \/ /\ nqPc' = "returned"
        /\ retErr' = SelectError(waitCh)
        /\ waitCh' = SelectDrain(waitCh)
        /\ received' = SelectReceived(waitCh, received)
        /\ UNCHANGED <<monitor, monitorBacklog>>
  /\ UNCHANGED sent
  /\ UNCHANGED <<writeVars, retQemu, socketsDir, monitorListener, consoleListener,
                 console, consoleBacklog, ctx, cmd, exitErr, watcherPc,
                 termPc, termKind, termCalls, monitorWrite, released,
                 releasedByWatcher, consolePumpMutex, runVars, matcherVars,
                 pumpVars, bufferVars, wireVars>>


\* console, err := consoleListener.Accept() and the select on its failure;
\* on success the Qemu value is built, the pump started and (qemu, nil)
\* returned
NewQemuAcceptConsole ==
  /\ nqPc = "acceptConsole"
  /\ \/ /\ consoleListener = "open"
        /\ consoleBacklog
        /\ console' = "open"
        /\ consoleBacklog' = FALSE
        /\ pumpPc' = "read"
        /\ nqPc' = "returned"
        /\ retQemu' = TRUE
        /\ retErr' = "nil"
        /\ UNCHANGED <<waitCh, received>>
     \/ /\ nqPc' = "returned"
        /\ retErr' = SelectError(waitCh)
        /\ waitCh' = SelectDrain(waitCh)
        /\ received' = SelectReceived(waitCh, received)
        /\ UNCHANGED <<console, consoleBacklog, pumpPc, retQemu>>
  /\ UNCHANGED sent
  /\ UNCHANGED <<writeVars, socketsDir, monitorListener, consoleListener, monitor,
                 monitorBacklog, ctx, cmd, exitErr, watcherPc, termPc,
                 termKind, termCalls, monitorWrite, released,
                 releasedByWatcher, pumpBuf, toPrint, num, readErr, appended,
                 consolePumpMutex, runVars, matcherVars, bufferVars,
                 wireVars>>


\* ------------------------------------------------------------ emulator
\* the emulator connects to the monitor socket
ProcConnectMonitor ==
  /\ cmd = "running"
  /\ monitorListener = "open"
  /\ ~monitorBacklog /\ monitor = "none"
  /\ monitorBacklog' = TRUE
  /\ UNCHANGED <<chanVars, writeVars, nqPc, retQemu, retErr, socketsDir, monitorListener,
                 consoleListener, monitor, console, consoleBacklog, ctx, cmd,
                 exitErr, watcherPc, waitCh, termPc, termKind, termCalls,
                 monitorWrite, released, releasedByWatcher, consolePumpMutex,
                 runVars, matcherVars, pumpVars, bufferVars, wireVars>>


\* the emulator connects to the console socket
ProcConnectConsole ==
  /\ cmd = "running"
  /\ consoleListener = "open"
  /\ ~consoleBacklog /\ console = "none"
  /\ consoleBacklog' = TRUE
  /\ UNCHANGED <<chanVars, writeVars, nqPc, retQemu, retErr, socketsDir, monitorListener,
                 consoleListener, monitor, console, monitorBacklog, ctx, cmd,
                 exitErr, watcherPc, waitCh, termPc, termKind, termCalls,
                 monitorWrite, released, releasedByWatcher, consolePumpMutex,
                 runVars, matcherVars, pumpVars, bufferVars, wireVars>>


\* the emulator process exits by itself (quit, power-down, guest halt,
\* crash) with status 0 or not; its end of the console closes
ProcExit ==
  /\ cmd = "running"
  /\ cmd' = "exited"
  /\ \E e \in {"nil", "exit"} : exitErr' = e
  /\ peer' = IF peer = "open" THEN "eof" ELSE peer
  /\ UNCHANGED <<chanVars, writeVars, nqPc, retQemu, retErr, socketsDir, monitorListener,
                 consoleListener, monitor, console, monitorBacklog,
                 consoleBacklog, ctx, watcherPc, waitCh, termPc, termKind,
                 termCalls, monitorWrite, released, releasedByWatcher, budget, stream,
                 consolePumpMutex, runVars, matcherVars, pumpVars,
                 bufferVars>>


\* the deadline of context.WithTimeout elapses
DeadlineExpires ==
  /\ ctx = "armed"
  /\ ctx' = "expired"
  /\ UNCHANGED <<chanVars, writeVars, nqPc, retQemu, retErr, socketsDir, monitorListener,
                 consoleListener, monitor, console, monitorBacklog,
                 consoleBacklog, cmd, exitErr, watcherPc, waitCh, termPc,
                 termKind, termCalls, monitorWrite, released,
                 releasedByWatcher, consolePumpMutex, runVars, matcherVars,
                 pumpVars, bufferVars, wireVars>>


\* exec.CommandContext kills the process once the context is done
KillByContext ==
  /\ ctx \in {"expired", "cancelled"}
  /\ cmd = "running"
  /\ cmd' = "exited"
  /\ exitErr' = "exit"
  /\ peer' = IF peer = "open" THEN "eof" ELSE peer
  /\ UNCHANGED <<chanVars, writeVars, nqPc, retQemu, retErr, socketsDir, monitorListener,
                 consoleListener, monitor, console, monitorBacklog,
                 consoleBacklog, ctx, watcherPc, waitCh, termPc, termKind,
                 termCalls, monitorWrite, released, releasedByWatcher, budget, stream,
                 consolePumpMutex, runVars, matcherVars, pumpVars,
                 bufferVars>>


\* ------------------------------------------------------------ exit watcher
\* ctxCancel() on a context in state c
Cancelled(c) == IF c = "armed" THEN "cancelled" ELSE c

\* err := cmd.Wait(); waitCh <- err
WatcherSend ==
  /\ watcherPc = "wait"
  /\ cmd = "exited"
  /\ Len(waitCh) < 1
  /\ waitCh' = Append(waitCh, exitErr)
  /\ sent' = sent + 1
  /\ UNCHANGED received
  /\ watcherPc' = IF exitErr # "nil" THEN "cancel" ELSE "done"
  /\ UNCHANGED <<writeVars, nqPc, retQemu, retErr, socketsDir, monitorListener,
                 consoleListener, monitor, console, monitorBacklog,
                 consoleBacklog, ctx, cmd, exitErr, termPc, termKind,
                 termCalls, monitorWrite, released, releasedByWatcher,
                 consolePumpMutex, runVars, matcherVars, pumpVars, bufferVars,
                 wireVars>>


\* if err != nil { ctxCancel()
WatcherCancel ==
  /\ watcherPc = "cancel"
  /\ ctx' = Cancelled(ctx)
  /\ releasedByWatcher' = [releasedByWatcher EXCEPT !["ctx"] = @ + 1]
  /\ watcherPc' = "closeMonitorListener"
  /\ UNCHANGED <<chanVars, writeVars, nqPc, retQemu, retErr, socketsDir, monitorListener,
                 consoleListener, monitor, console, monitorBacklog,
                 consoleBacklog, cmd, exitErr, waitCh, termPc, termKind,
                 termCalls, monitorWrite, released, consolePumpMutex, runVars,
                 matcherVars, pumpVars, bufferVars, wireVars>>


\* monitorListener.Close()
WatcherCloseMonitorListener ==
  /\ watcherPc = "closeMonitorListener"
  /\ monitorListener' = "closed"
  /\ monitorBacklog' = FALSE
  /\ releasedByWatcher' = [releasedByWatcher EXCEPT !["monitorListener"] = @ + 1]
  /\ watcherPc' = "closeConsoleListener"
  /\ UNCHANGED <<chanVars, writeVars, nqPc, retQemu, retErr, socketsDir, consoleListener, monitor,
                 console, consoleBacklog, ctx, cmd, exitErr, waitCh, termPc,
                 termKind, termCalls, monitorWrite, released,
                 consolePumpMutex, runVars, matcherVars, pumpVars, bufferVars,
                 wireVars>>


\* consoleListener.Close() }
WatcherCloseConsoleListener ==
  /\ watcherPc = "closeConsoleListener"
  /\ consoleListener' = "closed"
  /\ consoleBacklog' = FALSE
  /\ releasedByWatcher' = [releasedByWatcher EXCEPT !["consoleListener"] = @ + 1]
  /\ watcherPc' = "done"
  /\ UNCHANGED <<chanVars, writeVars, nqPc, retQemu, retErr, socketsDir, monitorListener, monitor,
                 console, monitorBacklog, ctx, cmd, exitErr, waitCh, termPc,
                 termKind, termCalls, monitorWrite, released,
                 consolePumpMutex, runVars, matcherVars, pumpVars, bufferVars,
                 wireVars>>


\* ------------------------------------------------------------ Kill, Shutdown
\* Kill() or Shutdown() is called
TermCall ==
  /\ CallerFree
  /\ wPc = "idle"
  /\ termCalls < MaxTerm
  /\ \E k \in {"Kill", "Shutdown"} : termKind' = k
  /\ termPc' = "write"
  /\ UNCHANGED <<chanVars, writeVars, nqPc, retQemu, retErr, socketsDir, monitorListener,
                 consoleListener, monitor, console, monitorBacklog,
                 consoleBacklog, ctx, cmd, exitErr, watcherPc, waitCh,
                 termCalls, monitorWrite, released, releasedByWatcher,
                 consolePumpMutex, runVars, matcherVars, pumpVars, bufferVars,
                 wireVars>>


\* a Kill / Shutdown that returns when the write on the monitor fails
TermWriteFatal ==
  /\ termPc = "write"
  /\ \E ok \in (IF monitor = "open" THEN BOOLEAN ELSE {FALSE}) :
       /\ monitorWrite' = IF ok THEN "ok" ELSE "failed"
       /\ termPc' = IF ok THEN "receive" ELSE "idle"
       /\ termCalls' = IF ok THEN termCalls ELSE termCalls + 1
  /\ UNCHANGED <<chanVars, writeVars, nqPc, retQemu, retErr, socketsDir, monitorListener,
                 consoleListener, monitor, console, monitorBacklog,
                 consoleBacklog, ctx, cmd, exitErr, watcherPc, waitCh,
                 termKind, released, releasedByWatcher,
                 consolePumpMutex, runVars, matcherVars, pumpVars, bufferVars,
                 wireVars>>

\* q.monitor.Write([]byte("quit\n")) or ("system_powerdown\n"); a failure
\* is logged
TermWrite ==
  /\ termPc = "write"
  /\ \E ok \in (IF monitor = "open" THEN BOOLEAN ELSE {FALSE}) :
       monitorWrite' = IF ok THEN "ok" ELSE "failed"
  /\ termPc' = "receive"
  /\ UNCHANGED <<chanVars, writeVars, nqPc, retQemu, retErr, socketsDir, monitorListener,
                 consoleListener, monitor, console, monitorBacklog,
                 consoleBacklog, ctx, cmd, exitErr, watcherPc, waitCh,
                 termKind, termCalls, released, releasedByWatcher,
                 consolePumpMutex, runVars, matcherVars, pumpVars, bufferVars,
                 wireVars>>


\* a wait() that goes on when no exit result is there to receive
TermReceiveNoBlock ==
  /\ termPc = "receive"
  /\ waitCh' = SelectDrain(waitCh)
  /\ received' = IF waitCh # <<>> THEN [received EXCEPT !["wait"] = @ + 1]
                 ELSE received
  /\ UNCHANGED sent
  /\ termPc' = "cancel"
  /\ UNCHANGED <<writeVars, nqPc, retQemu, retErr, socketsDir, monitorListener,
                 consoleListener, monitor, console, monitorBacklog,
                 consoleBacklog, ctx, cmd, exitErr, watcherPc, termKind,
                 termCalls, monitorWrite, released, releasedByWatcher,
                 consolePumpMutex, runVars, matcherVars, pumpVars, bufferVars,
                 wireVars>>


\* wait(): err := <-q.waitCh; a non-nil err is logged
TermReceive ==
  /\ termPc = "receive"
  /\ waitCh # <<>>
  /\ waitCh' = Tail(waitCh)
  /\ received' = [received EXCEPT !["wait"] = @ + 1]
  /\ UNCHANGED sent
  /\ termPc' = "cancel"
  /\ UNCHANGED <<writeVars, nqPc, retQemu, retErr, socketsDir, monitorListener,
                 consoleListener, monitor, console, monitorBacklog,
                 consoleBacklog, ctx, cmd, exitErr, watcherPc, termKind,
                 termCalls, monitorWrite, released, releasedByWatcher,
                 consolePumpMutex, runVars, matcherVars, pumpVars, bufferVars,
                 wireVars>>


\* q.ctxCancel()
TermCancel ==
  /\ termPc = "cancel"
  /\ ctx' = Cancelled(ctx)
  /\ released' = [released EXCEPT !["ctx"] = @ + 1]
  /\ termPc' = "closeConsole"
  /\ UNCHANGED <<chanVars, writeVars, nqPc, retQemu, retErr, socketsDir, monitorListener,
                 consoleListener, monitor, console, monitorBacklog,
                 consoleBacklog, cmd, exitErr, watcherPc, waitCh, termKind,
                 termCalls, monitorWrite, releasedByWatcher, consolePumpMutex,
                 runVars, matcherVars, pumpVars, bufferVars, wireVars>>


\* _ = q.console.Close()
TermCloseConsole ==
  /\ termPc = "closeConsole"
  /\ console' = "closed"
  /\ released' = [released EXCEPT !["console"] = @ + 1]
  /\ termPc' = "closeConsoleListener"
  /\ UNCHANGED <<chanVars, writeVars, nqPc, retQemu, retErr, socketsDir, monitorListener,
                 consoleListener, monitor, monitorBacklog, consoleBacklog,
                 ctx, cmd, exitErr, watcherPc, waitCh, termKind, termCalls,
                 monitorWrite, releasedByWatcher, consolePumpMutex, runVars,
                 matcherVars, pumpVars, bufferVars, wireVars>>


\* _ = q.consoleListener.Close()
TermCloseConsoleListener ==
  /\ termPc = "closeConsoleListener"
  /\ consoleListener' = "closed"
  /\ released' = [released EXCEPT !["consoleListener"] = @ + 1]
  /\ termPc' = "closeMonitor"
  /\ UNCHANGED <<chanVars, writeVars, nqPc, retQemu, retErr, socketsDir, monitorListener, monitor,
                 console, monitorBacklog, consoleBacklog, ctx, cmd, exitErr,
                 watcherPc, waitCh, termKind, termCalls, monitorWrite,
                 releasedByWatcher, consolePumpMutex, runVars, matcherVars,
                 pumpVars, bufferVars, wireVars>>


\* _ = q.monitor.Close()
TermCloseMonitor ==
  /\ termPc = "closeMonitor"
  /\ monitor' = "closed"
  /\ released' = [released EXCEPT !["monitor"] = @ + 1]
  /\ termPc' = "closeMonitorListener"
  /\ UNCHANGED <<chanVars, writeVars, nqPc, retQemu, retErr, socketsDir, monitorListener,
                 consoleListener, console, monitorBacklog, consoleBacklog,
                 ctx, cmd, exitErr, watcherPc, waitCh, termKind, termCalls,
                 monitorWrite, releasedByWatcher, consolePumpMutex, runVars,
                 matcherVars, pumpVars, bufferVars, wireVars>>


\* _ = q.monitorListener.Close()
TermCloseMonitorListener ==
  /\ termPc = "closeMonitorListener"
  /\ monitorListener' = "closed"
  /\ released' = [released EXCEPT !["monitorListener"] = @ + 1]
  /\ termPc' = "removeAll"
  /\ UNCHANGED <<chanVars, writeVars, nqPc, retQemu, retErr, socketsDir, consoleListener, monitor,
                 console, monitorBacklog, consoleBacklog, ctx, cmd, exitErr,
                 watcherPc, waitCh, termKind, termCalls, monitorWrite,
                 releasedByWatcher, consolePumpMutex, runVars, matcherVars,
                 pumpVars, bufferVars, wireVars>>


\* os.RemoveAll(q.socketsDir) and the return of Kill / Shutdown
TermRemoveAll ==
  /\ termPc = "removeAll"
  /\ socketsDir' = "removed"
  /\ released' = [released EXCEPT !["socketsDir"] = @ + 1]
  /\ termPc' = "idle"
  /\ termCalls' = termCalls + 1
  /\ UNCHANGED <<chanVars, writeVars, nqPc, retQemu, retErr, monitorListener, consoleListener,
                 monitor, console, monitorBacklog, consoleBacklog, ctx, cmd,
                 exitErr, watcherPc, waitCh, termKind, monitorWrite,
                 releasedByWatcher, consolePumpMutex, runVars, matcherVars,
                 pumpVars, bufferVars, wireVars>>


\* ------------------------------------------------------------ whole session
\* before NewQemu has done anything
InitLife ==
  /\ nqPc = "tempDir" /\ retQemu = FALSE /\ retErr = "none"
  /\ socketsDir = "none"
  /\ monitorListener = "none" /\ consoleListener = "none"
  /\ monitor = "none" /\ console = "none"
  /\ monitorBacklog = FALSE /\ consoleBacklog = FALSE
  /\ ctx = "none" /\ cmd = "none" /\ exitErr = "none"
  /\ watcherPc = "none" /\ waitCh = <<>>
  /\ sent = 0 /\ received = [p \in Receivers |-> 0]
  /\ termPc = "idle" /\ termKind = "none" /\ termCalls = 0
  /\ monitorWrite = "none"
  /\ released = [r \in Resources |-> 0]
  /\ releasedByWatcher = [r \in Resources |-> 0]
  /\ EngineInit
  /\ pumpPc = "none"
  /\ budget = LifeBytes
  /\ charset = {"A", NL} /\ script = <<>>
  /\ menu = {Lit(<<"A">>)}
  /\ callLimit = LifeCalls

NewQemuNext ==
  NewQemuTempDir \/ NewQemuListenMonitor \/ NewQemuListenConsole
  \/ NewQemuOptions \/ NewQemuStart \/ NewQemuAcceptMonitor
  \/ NewQemuAcceptConsole

ProcNext ==
  ProcConnectMonitor \/ ProcConnectConsole \/ ProcExit \/ DeadlineExpires
  \/ KillByContext

WatcherNext ==
  WatcherSend \/ WatcherCancel \/ WatcherCloseMonitorListener
  \/ WatcherCloseConsoleListener

TermNext ==
  TermCall \/ TermWrite \/ TermReceive \/ TermCancel \/ TermCloseConsole
  \/ TermCloseConsoleListener \/ TermCloseMonitor \/ TermCloseMonitorListener
  \/ TermRemoveAll

NextLife == NewQemuNext \/ ProcNext \/ WatcherNext \/ TermNext \/ NextConsole

SpecLife == InitLife /\ [][NextLife]_vars

\* The pump and a wait call in progress are goroutines the Go scheduler
\* keeps running.  The pump needs the lock again and again while a polling
\* wait call takes and releases it; sync.Mutex hands the lock to a
\* goroutine that has been waiting (starvation mode), hence strong fairness
\* of PumpLock.  The caller is free never to call again and the emulator
\* never to write.
PumpStep == PumpRead \/ PumpAppend \/ PumpCheckErr \/ PumpSleep

WaitStep ==
  WaitLock \/ WaitDrain \/ WaitSleep \/ WaitScan \/ WaitRelock \/ WaitRebuffer

FairConsole == WF_vars(PumpStep) /\ SF_vars(PumpLock) /\ WF_vars(WaitStep)

SpecConsoleFair == InitConsoleFair /\ [][NextConsole]_vars /\ FairConsole

SpecCarryFair == InitCarry /\ [][NextConsole]_vars /\ FairConsole

SpecSpanFair == InitSpan /\ [][NextConsole]_vars /\ FairConsole

\* The exit watcher and a Kill / Shutdown in progress keep running, the
\* deadline timer fires and the killed process is reaped: whenever one of
\* these can step, one does (each makes finitely many steps).  NewQemu's
\* Accept may block, the caller is free never to call, the emulator never
\* to act.
TermStep ==
  TermWrite \/ TermReceive \/ TermCancel \/ TermCloseConsole
  \/ TermCloseConsoleListener \/ TermCloseMonitor \/ TermCloseMonitorListener
  \/ TermRemoveAll

SessionStep == DeadlineExpires \/ KillByContext \/ WatcherNext \/ TermStep

FairLife == FairConsole /\ WF_vars(SessionStep)

SpecLifeFair == InitLife /\ [][NextLife]_vars /\ FairLife

\* ------------------------------------------------------------ claims

\* the bytes a wait call in progress holds locally: the lines it has
\* already examined (buf = buf[idx:] only advances the slice over them)
\* followed by the rest of buf
Held == dropped \o buf

\* C1: no console byte is lost or duplicated: the bytes consumed by
\* completed wait calls, then the bytes held by the wait call in progress,
\* then consoleData, are exactly the bytes the pump has appended so far.
C1_NoLossNoDup == appended = consumed \o Held \o consoleData

\* C1 witness: a second wait call holds bytes while earlier bytes are
\* consumed and the pump has appended more
C1_Witness ==
  /\ consumed # <<>> /\ buf # <<>> /\ consoleData # <<>>
  /\ C1_NoLossNoDup

AB == <<"A", "B">>

\* C2 scenario: "A" has been appended, "B\n" is the next chunk to be
\* appended, and the first wait call, ConsoleExpect("AB"), is in progress
C2_Scenario ==
  /\ calls = 0 /\ wPc \notin {"idle", "panic"} /\ processor = Lit(AB)
  /\ appended = <<"A">>
  /\ pumpPc \in {"lock", "append"} /\ toPrint = <<"B", NL>>

\* C2 outcome: the first call returned success, the line "AB\n" is consumed
\* and what is left for the next call is only what was appended after it
C2_Returned ==
  /\ calls = 1 /\ wPc = "idle" /\ result = "nil" /\ processor = Lit(AB)
  /\ consumed = <<"A", "B", NL>>
  /\ appended = consumed \o consoleData

\* C2: with "A" delivered in one read and "B\n" in a later one, a pending
\* ConsoleExpect("AB") returns success once both are appended and the
\* matched line is not offered to a later call.
C2_SplitLineMatches == C2_Scenario ~> C2_Returned

\* C2 witness: the scenario's outcome with nothing left in the line buffer
C2_Witness == C2_Returned /\ consoleData = <<>> /\ appended = <<"A", "B", NL>>

\* the number of bytes of the stream that precede the fragment last cut by
\* the call in progress
FragmentStart ==
  Len(consumed) + Len(dropped) - (IF newLine THEN Len(toProcess) ELSE 0)

\* C3: byte order is preserved across wait calls: every fragment offered to
\* a predicate starts at the first byte of the appended stream that no call
\* has consumed yet and continues in stream order, so a remainder left by
\* an earlier call comes first and bytes appended later come after it.
C3_FragmentsInStreamOrder ==
  wPc # "idle" =>
    /\ FragmentStart >= 0
    /\ FragmentStart + Len(toProcess) <= Len(appended)
    /\ toProcess = SubSeq(appended, FragmentStart + 1, FragmentStart + Len(toProcess))

\* C3 witness: the first call left a remainder and found newer bytes in
\* consoleData when it re-buffered; the second call has been offered a
\* fragment
C3_Witness ==
  /\ raced /\ calls = 1 /\ wPc # "idle" /\ consumed # <<>> /\ toProcess # <<>>
  /\ C3_FragmentsInStreamOrder

\* a wait call is parked in its poll loop and no byte is on its way: the
\* emulator writes no more, the pump holds none, the line buffer is drained
ParkedNoData ==
  /\ wPc = "sleep"
  /\ budget = 0 /\ pumpPc \in {"read", "sleep"} /\ ~consoleDataArrived

ReturnedEOF == wPc = "idle" /\ result = "EOF"

\* C4: when the console transport reaches end-of-file with no further
\* data, a parked wait call returns io.EOF; it does not poll forever.
C4_EOFEndsParkedWait == (ParkedNoData /\ peer = "eof") ~> ReturnedEOF

\* C4 witness: a wait call returned io.EOF after the pump saw end-of-file
C4_Witness ==
  /\ ReturnedEOF /\ calls = 1 /\ peer = "eof" /\ consoleDataEOF
  /\ pumpPc = "done" /\ readErr = "EOF"

\* C5: when a console read fails with an error other than end-of-file and
\* the pump exits, a parked wait call returns an end-of-stream failure; it
\* does not poll forever.
C5_ReadErrorEndsParkedWait == (ParkedNoData /\ peer = "err") ~> ReturnedEOF

\* every capturing group of every match of pat in data, in order of
\* appearance
RECURSIVE AllGroups(_)
AllGroups(m) == IF m = <<>> THEN <<>> ELSE Tail(Head(m)) \o AllGroups(Tail(m))

\* a ConsoleExpectRE call has returned success; toProcess is still the
\* fragment that matched
ReturnedRE == wPc = "idle" /\ calls > 0 /\ result = "nil" /\ processor.kind = "re"

\* C10 as claimed: a successful ConsoleExpectRE returns every captured
\* group of every match in the matching fragment (k*m strings).
C10_AllGroupsReturned ==
  ReturnedRE =>
    LET m == FindAllSubmatch(processor.pat, toProcess)
    IN  /\ Len(retMatches) = processor.pat.groups * Len(m)
        /\ retMatches = AllGroups(m)

\* C10 as the code has it: a successful ConsoleExpectRE with a pattern of at
\* least one capturing group returns the first captured group of every
\* match in the matching fragment, in order of appearance (m strings).
C10_FirstGroupPerMatch ==
  (ReturnedRE /\ processor.pat.groups >= 1) =>
    LET m == FindAllSubmatch(processor.pat, toProcess)
    IN  /\ Len(m) >= 1
        /\ Len(retMatches) = Len(m)
        /\ \A i \in 1..Len(m) : retMatches[i] = m[i][2]

\* C10 witness: two matches of (.) in one fragment returned in order, and
\* one match of A(.)(.) returned as one string
C10_Witness ==
  /\ ReturnedRE
  /\ \/ processor.pat.groups = 1 /\ Len(retMatches) = 2 /\ retMatches[1] # retMatches[2]
     \/ processor.pat.groups = 2 /\ Len(retMatches) = 1

\* ------------------------------------------------------ session claims
\* NewQemu returned a session
Running == nqPc = "returned" /\ retQemu

\* the finalization of wait() is complete
Stopped ==
  /\ console = "closed" /\ monitor = "closed"
  /\ consoleListener = "closed" /\ monitorListener = "closed"
  /\ socketsDir = "removed"

\* C6: once a termination operation is called for the second time on the
\* same session, no resource (connections, listeners, temporary directory,
\* deadline context) has been released twice, whoever released it: the
\* Kill / Shutdown calls or the exit watcher.  (No step of Kill, Shutdown
\* or wait can panic: every error is logged or dropped.)
C6_NoDoubleRelease ==
  (termCalls = 1 /\ termPc # "idle")
    => \A r \in Resources : released[r] + releasedByWatcher[r] <= 1

\* C7: if the deadline elapses while the session is Running and no
\* termination call has been made, the session eventually reaches Stopped
\* with its resources released.
C7_DeadlineAloneStops ==
  (Running /\ ctx = "expired" /\ termCalls = 0 /\ termPc = "idle") ~> Stopped

\* NewQemu returned an error
ReturnedError == nqPc = "returned" /\ ~retQemu /\ retErr \notin {"none", "nil"}

\* C8: whenever NewQemu returns an error, everything allocated before the
\* failing step has been released: no listener or connection is open, the
\* temporary directory is removed, the deadline context is cancelled and no
\* started process is left running.
C8_FailedStartupReleasesAll ==
  ReturnedError =>
    /\ monitorListener # "open" /\ consoleListener # "open"
    /\ monitor # "open" /\ console # "open"
    /\ socketsDir # "exists"
    /\ ctx # "armed"
    /\ cmd # "running"

\* the step in which an Accept of NewQemu fails and NewQemu returns
AcceptFails ==
  /\ nqPc \in {"acceptMonitor", "acceptConsole"}
  /\ nqPc' = "returned" /\ ~retQemu'

\* the listener NewQemu is accepting on has been closed
AcceptListenerClosed ==
  \/ nqPc = "acceptMonitor" /\ monitorListener = "closed"
  \/ nqPc = "acceptConsole" /\ consoleListener = "closed"

\* C9 as claimed: if the process has already exited when an Accept fails,
\* NewQemu returns the process's exit error and not the Accept error, for
\* every interleaving of the exit watcher with the Accept calls.
C9_ExitErrorOnceExited ==
  [][(AcceptFails /\ cmd = "exited" /\ exitErr = "exit") => retErr' = exitErr]_vars

\* C9 as the code has it: if an Accept fails once the exit watcher has sent
\* the exit result on waitCh, as is the case whenever the Accept fails
\* because the watcher closed the listener, NewQemu returns the value
\* delivered on waitCh and not the Accept error.
C9_ExitErrorOnceDelivered ==
  [][(AcceptFails /\ (waitCh # <<>> \/ AcceptListenerClosed))
       => (cmd = "exited" /\ retErr' = exitErr /\ waitCh' = <<>>)]_vars

\* C9 witness: NewQemu returned the exit error after the watcher closed
\* the listeners
C9_Witness ==
  /\ nqPc = "returned" /\ ~retQemu /\ retErr = "exit" /\ exitErr = "exit"
  /\ monitorListener = "closed" /\ waitCh = <<>>

\* ------------------------------------------------- further console claims
\* a wait call has returned
Returned == wPc = "idle" /\ calls > 0

\* the captures of a pattern with one capturing group in one fragment: the
\* group of each match, from left to right
CapturesIn(pat, data) ==
  LET m == FindAllSubmatch(pat, data)
  IN  [i \in 1..Len(m) |-> m[i][Len(m[i])]]

\* C11: a successful ConsoleExpectRE with a pattern of one capturing group
\* returns a non-empty list with exactly one capture per match in the
\* fragment that matched, from left to right, and nothing from fragments
\* examined earlier or from earlier calls; a call that fails returns no
\* matches.
C11_CapturesOfMatchingFragmentOnly ==
  Returned =>
    /\ (result = "nil" /\ processor.kind = "re" /\ processor.pat.groups = 1)
         => (retMatches # <<>> /\ retMatches = CapturesIn(processor.pat, toProcess))
    /\ result # "nil" => retMatches = <<>>

\* C11 witness: the second of two successful calls with the pattern (.)
\* returned the capture of its own fragment "B" only; the first had
\* matched the line "A\n"
C11_Witness ==
  /\ Returned /\ calls = 2 /\ result = "nil" /\ processor = Re(<<>>, 1)
  /\ appended = <<"A", NL, "B">> /\ consumed = <<"A", NL>>
  /\ toProcess = <<"B">> /\ retMatches = <<<<"B">>>>

\* the trailing fragment of s: what follows its last '\n'
TrailingFragment(s) == SliceFrom(s, LastIndexByte(s, NL) + 1)

\* a ConsoleExpect("AB") call is in progress and the bytes no call has
\* examined to their end yet (its buf, then consoleData) end with a
\* fragment without line terminator that contains "AB"
C12_PromptPending ==
  /\ wPc \notin {"idle", "panic"} /\ processor = Lit(AB)
  /\ Contains(TrailingFragment(buf \o consoleData), AB)

\* C12: output that is not yet newline-terminated is matchable: once the
\* pump has appended a trailing fragment without line terminator that
\* contains the target, a pending ConsoleExpect returns success, whether
\* or not any further byte arrives.
C12_UnterminatedFragmentMatches ==
  C12_PromptPending ~> (Returned /\ result = "nil" /\ processor = Lit(AB))

\* C12 witness: ConsoleExpect("AB") returned success when the console had
\* delivered "AB" and nothing else
C12_Witness ==
  /\ Returned /\ calls = 1 /\ result = "nil" /\ processor = Lit(AB)
  /\ appended = AB /\ pumpBuf = <<>> /\ toProcess = AB /\ ~newLine
  /\ budget = LiveBytes - 2

\* a wait call is in flight in a Running session whose deadline has elapsed
\* and no termination call has been made
C13_DeadlinePassedInFlight ==
  /\ Running /\ ctx = "expired" /\ wPc \notin {"idle", "panic"}
  /\ termCalls = 0 /\ termPc = "idle"

\* C13: if the deadline elapses while the session is Running and a wait
\* call is in flight, the process is killed, the console stream ends and
\* the wait call eventually returns: with a failure if it never finds a
\* match.
C13_DeadlineBoundsWait ==
  C13_DeadlinePassedInFlight
    ~> (cmd = "exited" /\ Returned /\ result \in {"nil", "EOF"})

\* ------------------------------------------------------ filter claims
\* what the pump has delivered of the stream: the bytes appended to the
\* line buffer, then the filtered bytes that wait for the lock
Delivered == appended \o toPrint

\* C16: for every console stream without the escape byte, whatever way it
\* is split into reads, the bytes the pump delivers to the line buffer are
\* exactly the stream's bytes, unchanged and in order, and nothing is
\* withheld in the carry buffer.
C16_PlainStreamUnchanged ==
  ~Contains(stream, <<ESC>>) => (Delivered = stream /\ pumpBuf = <<>>)

\* C16 witness: a plain stream of three bytes whose last byte came in a
\* read of its own has been delivered
C16_Witness ==
  /\ Len(stream) = 3 /\ ~Contains(stream, <<ESC>>) /\ Contains(stream, <<NL>>)
  /\ pumpPc = "append" /\ num = 1 /\ Len(appended) = 2 /\ Delivered = stream

\* the plain text of the output of this run
PlainOf(sc) == (CHOOSE g \in GrammarInputs \cup LongInputs : g.script = sc).plain

\* the whole output of this run has arrived in one read and is filtered
WholeInOneRead ==
  pumpPc \in {"lock", "append"} /\ stream = script /\ num = Len(script)

\* C17: for every input made of plain text and complete control sequences
\* of the covered grammar, the filter removes each sequence and leaves
\* every surrounding plain byte untouched and in order.
C17_SequencesRemovedPlainKept ==
  WholeInOneRead => (toPrint = PlainOf(script) /\ pumpBuf = <<>>)

\* C17 witness: an output with two control sequences filtered in one read
C17_Witness ==
  /\ WholeInOneRead /\ pumpPc = "append"
  /\ script = <<"A", ESC, "[", "1", ";", "2", "H", "B", ESC, "[", "K", NL>>
  /\ toPrint = <<"A", "B", NL>>

\* is p a prefix of s
IsPrefix(p, s) == Len(p) <= Len(s) /\ p = SubSeq(s, 1, Len(p))

\* however the output was split into reads, what the pump has delivered
\* is plain text of the output only and, once the whole output is read,
\* all of it: the same as when it arrives in a single read
SplitAsSingleRead ==
  /\ IsPrefix(Delivered, PlainOf(script))
  /\ stream = script => (Delivered = PlainOf(script) /\ pumpBuf = <<>>)

\* C18 as claimed: a recognized control sequence that is split across
\* reads is removed as a whole: the bytes delivered are the same as when
\* the same stream arrives in a single read, and no fragment of the
\* sequence is delivered as text.
C18_SplitSequenceRemoved == SplitAsSingleRead

\* C18 as the code has it: the same, for control sequences shorter than
\* asciiSeqMaxLength.
C18_ShortSplitSequenceRemoved ==
  (\E g \in GrammarInputs : script = g.script) => SplitAsSingleRead

\* C18 witness: the last read started inside a control sequence and
\* completed it, and the plain text has been delivered
C18_Witness ==
  /\ \E g \in GrammarInputs : script = g.script
  /\ stream = script /\ pumpPc = "append" /\ num < Len(script)
  /\ stream[Len(stream) - num] \in {ESC, "[", ";"}
  /\ Delivered = PlainOf(script)

\* ------------------------------------------------- further session claims
\* the release operations of wait(), in the order of its statements
FinalizationOrder ==
  <<"ctx", "console", "consoleListener", "monitor", "monitorListener", "socketsDir">>

\* C14: in Kill and in Shutdown the finalization starts only after the
\* exit result has been received from waitCh, hence after the process has
\* exited, and runs in the order: cancel the deadline context, close the
\* console connection, the console listener, the monitor connection, the
\* monitor listener, remove the temporary directory.  No connection is
\* closed and the directory is not removed while the process is running,
\* and a call that has returned has done all of it, whatever the exit
\* error.
C14_FinalizationAfterExitInOrder ==
  /\ \A i \in 1..(Len(FinalizationOrder) - 1) :
       released[FinalizationOrder[i + 1]] <= released[FinalizationOrder[i]]
  /\ released["ctx"] >= 1 => cmd = "exited"
  /\ termPc \notin {"idle", "write", "receive"} => (cmd = "exited" /\ waitCh = <<>>)
  /\ cmd = "running" =>
       (console # "closed" /\ monitor # "closed" /\ socketsDir # "removed")
  /\ termCalls >= 1 => (Stopped /\ \A r \in Resources : released[r] >= 1)

\* C14 witness: wait() is in the middle of its finalization after a
\* non-nil exit error: context and console connection done, the rest not
\* yet done by it
C14_Witness ==
  /\ termPc = "closeConsoleListener" /\ exitErr = "exit"
  /\ released["ctx"] = 1 /\ released["console"] = 1
  /\ released["consoleListener"] = 0 /\ monitor = "open" /\ socketsDir = "exists"

\* the first termination call has failed to write its directive on the
\* monitor, waits for the exit result, and the process has exited
C15_WriteFailedExited ==
  /\ termCalls = 0 /\ termPc = "receive" /\ monitorWrite = "failed"
  /\ cmd = "exited"

\* C15: a failure to write "quit" or "system_powerdown" on the monitor is
\* not fatal: the call goes on to wait for the process exit and, once the
\* process has exited, performs the full finalization; it never returns
\* without it.
C15_MonitorWriteFailureNotFatal ==
  /\ []((monitorWrite = "failed" /\ termPc = "idle" /\ termCalls >= 1) => Stopped)
  /\ C15_WriteFailedExited
       ~> (Stopped /\ termCalls = 1 /\ termPc = "idle" /\ monitorWrite = "failed")

\* C15 witness: a termination call whose write failed on an open monitor
\* connection has returned after the full finalization
C15_Witness ==
  /\ monitorWrite = "failed" /\ termCalls = 1 /\ termPc = "idle" /\ Stopped
  /\ \A r \in Resources : released[r] = 1

\* ------------------------------------------------------- ConsoleWrite claim
\* a session NewQemu returned, with ConsoleWrite calls left
MayWrite == nqPc = "returned" /\ retQemu /\ writeCalls < MaxWrites

\* C19: ConsoleWrite writes the given bytes verbatim on the console
\* connection and returns the error of that write; the step leaves the line
\* buffer, the data-arrived flag, the stream-ended flag and the buffer lock
\* as they were, and the call can be made whoever holds the lock: it waits
\* neither for a wait call nor for the pump.
C19_ConsoleWriteVerbatimNoLock ==
  /\ [][writeCalls' # writeCalls =>
          /\ UNCHANGED <<consoleData, consoleDataArrived, consoleDataEOF,
                         consolePumpMutex>>
          /\ lastWrite'.err \in {"nil", "other"}
          /\ lastWrite'.err = "nil" => written' = written \o lastWrite'.str
          /\ IsPrefix(written, written')
          /\ IsPrefix(SliceFrom(written', Len(written)), lastWrite'.str)]_vars
  /\ [](MayWrite => ENABLED ConsoleWrite)

C19_Witness ==
  /\ writeCalls = 1
  /\ lastWrite = [str |-> <<"A", NL>>, err |-> "nil", mutex |-> "matcher"]
  /\ written = <<"A", NL>>
  /\ consolePumpMutex = "matcher"
  /\ wPc \notin {"idle", "panic"}

\* ------------------------------------------------------- re-buffering claim
IsSuffix(p, s) == Len(p) <= Len(s) /\ p = SliceFrom(s, Len(s) - Len(p))

\* C20: when a wait call has returned success, the fragment that matched is
\* among the bytes taken from the line buffer for good, at their end: it was
\* not put back with the unexamined bytes, whether it ended in '\n' or was
\* an unterminated trailing fragment.
C20_MatchedFragmentNotRebuffered ==
  (Returned /\ result = "nil") => IsSuffix(toProcess, consumed)

\* ------------------------------------------------------- locking claims
\* the task that holds the buffer lock when a step of the pump or of a
\* wait call is taken
PumpHolds == consolePumpMutex = "pump"
MatcherHolds == consolePumpMutex = "matcher"

\* C21: every step that writes the byte sequence, the data-arrived flag or
\* the stream-ended flag of the line buffer is taken by a task that holds
\* consolePumpMutex.
C21_BufferFieldsUnderLock ==
  [][(consoleData' # consoleData \/ consoleDataArrived' # consoleDataArrived
        \/ consoleDataEOF' # consoleDataEOF)
       => (PumpHolds \/ MatcherHolds)]_vars

\* ------------------------------------------------------- end-of-stream claim
\* the step on which a wait call returns io.EOF
ReturnsEOF == wPc = "drain" /\ wPc' = "idle" /\ result' = "EOF"

\* C22: when the stream-ended flag is set, the pump has appended everything
\* it read (all of it when the stream has no escape byte); and on the step
\* that returns end-of-stream nothing is left in the line buffer, and every
\* byte ever appended was dropped by an earlier call or examined by this
\* one: what this call still holds is the unterminated fragment its
\* predicate was offered last.
C22_EOFAfterAllDataOffered ==
  /\ [](consoleDataEOF =>
          /\ pumpPc = "done" /\ toPrint = <<>>
          /\ ~Contains(stream, <<ESC>>) => appended = stream)
  /\ [][ReturnsEOF =>
          /\ consoleData = <<>>
          /\ appended = consumed \o dropped \o buf
          /\ (buf = <<>> \/ (buf = toProcess /\ ~newLine))]_vars

C22_Witness ==
  /\ Returned /\ result = "EOF" /\ calls = 1
  /\ processor = Lit(AB)
  /\ stream = <<"B", NL, "A">>
  /\ appended = stream /\ consumed = stream
  /\ readErr = "EOF"

\* ------------------------------------------------------- ownership claims
\* the connections and listeners of a session
Channels == {"console", "consoleListener", "monitor", "monitorListener"}

\* C23: no connection and no listener is closed by the exit watcher, none
\* is closed more than once, and a close happens only inside a Kill or
\* Shutdown call.
C23_ChannelsClosedOnceByCaller ==
  \A r \in Channels :
    /\ releasedByWatcher[r] = 0
    /\ released[r] + releasedByWatcher[r] <= 1
    /\ released[r] >= 1 => (termPc # "idle" \/ termCalls >= 1)

\* ------------------------------------------------------- exit-result claim
\* receives from waitCh made so far
ReceivedTotal == received["NewQemu"] + received["wait"]

\* NewQemu has returned an error
StartupFailed == nqPc = "returned" /\ ~retQemu

\* C24 as stated: the exit result is sent at most once and received at most
\* once, and once it has been sent and the startup has failed or a
\* termination call has completed, it has been received exactly once.
C24_ExitResultReceivedExactlyOnce ==
  /\ sent <= 1
  /\ ReceivedTotal <= 1
  /\ (sent = 1 /\ (StartupFailed \/ termCalls >= 1)) => ReceivedTotal = 1

\* C24, amended: the exit result is sent at most once, and exactly once
\* when the process has exited: the send finds room in waitCh and the
\* watcher runs to its end; the result is received at most once, by the
\* failure handling of NewQemu (which then returns no session) or by the
\* wait() of the first termination call (which always receives it), never
\* by both; until then it stays in waitCh.
C24_ExitResultAtMostOnceReceived ==
  /\ [](/\ sent <= 1
        /\ ReceivedTotal <= 1
        /\ Len(waitCh) = sent - ReceivedTotal
        /\ (watcherPc = "wait" /\ cmd = "exited") => ENABLED WatcherSend
        /\ received["NewQemu"] = 1 => StartupFailed
        /\ received["wait"] = 1 => Running
        /\ termCalls >= 1 => received["wait"] = 1)
  /\ (cmd = "running") ~> (sent = 1 /\ watcherPc = "done")

C24_Witness ==
  /\ StartupFailed /\ retErr = "exit"
  /\ sent = 1 /\ received = [p \in Receivers |-> IF p = "NewQemu" THEN 1 ELSE 0]
  /\ waitCh = <<>> /\ watcherPc = "done"

\* ------------------------------------------------------- carry claim
\* bytes that are no part of any control sequence
PlainBytes == {"A", "B", NL}

\* the pump holds back plain text behind an escape byte
WithheldText == \E i \in 2..Len(pumpBuf) : pumpBuf[i] \in PlainBytes

\* C25: plain text held back in the carry behind an escape byte is
\* eventually appended to the line buffer, also when the console writes
\* nothing more or ends.
C25_WithheldTextDelivered == WithheldText ~> ~WithheldText

\* ------------------------------------------------------- startup claims
\* NewQemu is blocked in one of its two Accept calls
InAccept == nqPc \in {"acceptMonitor", "acceptConsole"}

\* the Accept that NewQemu is in can return: the emulator has connected or
\* the listener has been closed
AcceptReady ==
  \/ nqPc = "acceptMonitor" /\ (monitorBacklog \/ monitorListener = "closed")
  \/ nqPc = "acceptConsole" /\ (consoleBacklog \/ consoleListener = "closed")

\* an Accept that can return does return
AcceptStep == AcceptReady /\ (NewQemuAcceptMonitor \/ NewQemuAcceptConsole)

\* the whole session under fair scheduling, NewQemu's Accept calls included
SpecStartFair == InitLife /\ [][NextLife]_vars /\ FairLife /\ WF_vars(AcceptStep)

\* C26: if the emulator process has exited while NewQemu is in an Accept
\* call, NewQemu eventually returns, whatever the exit status.
C26_EarlyExitInterruptsAccept == (InAccept /\ cmd = "exited") ~> nqPc = "returned"

\* the step that starts the pump goroutine
PumpStarts == pumpPc = "none" /\ pumpPc' # "none"

\* C27: the emulator process is started only when both listeners exist;
\* the console connection is accepted only after the monitor connection;
\* the pump runs only in a session NewQemu returned without error, it is
\* started by the step that accepts the console connection, with both
\* connections open, and once started it is never started again.
C27_StartupOrder ==
  /\ [](/\ cmd # "none" => (monitorListener # "none" /\ consoleListener # "none")
        /\ console # "none" => monitor # "none"
        /\ pumpPc # "none" => (Running /\ retErr = "nil")
        /\ Running => pumpPc # "none"
        /\ StartupFailed => (pumpPc = "none" /\ retErr # "none"))
  /\ [][PumpStarts =>
          /\ nqPc = "acceptConsole" /\ nqPc' = "returned"
          /\ monitor = "open" /\ console = "none" /\ console' = "open"
          /\ pumpPc' = "read"]_vars
  /\ [][pumpPc # "none" => pumpPc' # "none"]_vars

C27_Witness ==
  /\ Running /\ retErr = "nil"
  /\ pumpPc = "lock" /\ stream # <<>>
  /\ monitor = "open" /\ console = "open"
  /\ monitorListener = "open" /\ consoleListener = "open"
  /\ cmd = "running" /\ termCalls = 0 /\ termPc = "idle"

\* ------------------------------------------------------- termination claim
\* a Kill or Shutdown call is in progress
InTermination == termPc # "idle"

\* C28: every Kill or Shutdown call in progress eventually returns, the
\* first one and any later one on the same session.
C28_EveryTerminationReturns == InTermination ~> ~InTermination

\* ------------------------------------------------------- lock-scope claim
\* a task is at a Lock() call
PumpAtLock == pumpPc = "lock"
MatcherAtLock == wPc \in {"lock", "relock"}

\* C29: the pump holds consolePumpMutex only in its append, a wait call only
\* in its drain and in its re-buffering: not while reading, filtering,
\* evaluating the predicate or sleeping; a task at a Lock() does not hold
\* the mutex already; and a task at a Lock() eventually gets the mutex.
C29_LockHeldForMutationOnly ==
  /\ [](/\ PumpHolds => pumpPc = "append"
        /\ MatcherHolds => wPc \in {"drain", "rebuffer"}
        /\ pumpPc = "append" => PumpHolds
        /\ wPc \in {"drain", "rebuffer"} => MatcherHolds)
  /\ PumpAtLock ~> (PumpHolds /\ pumpPc = "append")
  /\ MatcherAtLock ~> (MatcherHolds /\ wPc \in {"drain", "rebuffer"})

C29_Witness ==
  /\ MatcherAtLock /\ wPc = "relock"
  /\ PumpHolds /\ pumpPc = "append"
  /\ toPrint # <<>>

\* ------------------------------------------------------- fragment claim
\* f is the candidate fragment at the front of b: the first line with its
\* terminator, or all of b when b holds no terminator
CandidateFragment(b, f) ==
  /\ IsPrefix(f, b)
  /\ IndexByte(b, NL) = -1 => f = b
  /\ IndexByte(b, NL) # -1 => Len(f) = IndexByte(b, NL) + 1

\* a step of a wait call that offers a fragment to the predicate
Scans == wPc = "scan" /\ (wPc' # "scan" \/ buf' # buf)

\* a ConsoleExpect call is in progress
ExpectInFlight == wPc \notin {"idle", "panic"} /\ processor.kind = "lit"

\* C30: a ConsoleExpect call offers candidate fragments only and matches
\* exactly when the target is contained in the fragment offered; a call
\* that returned success was offered a fragment that contains the target;
\* a target that goes over a line terminator into the next line is never
\* matched, and the call for it returns end-of-stream once the stream has
\* ended.
C30_MatchWithinOneFragment ==
  /\ [][(Scans /\ processor.kind = "lit") =>
          /\ CandidateFragment(buf, toProcess')
          /\ (wPc' = "relock") <=> Contains(toProcess', processor.target)]_vars
  /\ []((Returned /\ result = "nil" /\ processor.kind = "lit")
          => Contains(toProcess, processor.target))
  /\ [](processor = Lit(SpanTarget)
          => (wPc \notin {"relock", "rebuffer"} /\ (Returned => result # "nil")))
  /\ (ExpectInFlight /\ processor = Lit(SpanTarget) /\ peer = "eof")
       ~> (Returned /\ result = "EOF")

C30_Witness ==
  /\ Returned /\ result = "EOF" /\ calls = 1
  /\ processor = Lit(SpanTarget)
  /\ stream = <<"A", NL, "A">>
  /\ appended = stream /\ consumed = stream

\* ------------------------------------------------------- forward-only claim
\* the step on which a wait call returns success
ReturnsSuccess == wPc = "rebuffer" /\ wPc' = "idle"

\* C31: the bytes consumed only grow; every fragment offered to a predicate
\* starts right behind the bytes consumed by earlier calls and the lines
\* this call has examined and rejected; and when a call returns success the
\* lines it examined, the rejected ones included, are consumed and what it
\* puts back on the line buffer starts behind them.
C31_RejectedLinesConsumed ==
  /\ [][IsPrefix(consumed, consumed')]_vars
  /\ [][Scans => IsPrefix(consumed \o dropped \o toProcess', appended)]_vars
  /\ [][ReturnsSuccess =>
          /\ consumed' = consumed \o dropped
          /\ appended = consumed' \o consoleData']_vars

C31_Witness ==
  /\ calls = 1 /\ result = "nil" /\ wPc = "relock"
  /\ stream = <<NL, "A", "B">> /\ appended = stream
  /\ consumed = <<NL>> /\ dropped = <<>>
  /\ processor = Lit(AB) /\ toProcess = AB

\* ------------------------------------------------------- groupless pattern
\* C32: no ConsoleExpectRE call crashes the caller: a call ends with the
\* captured strings or with a returned error, also for a pattern without
\* capturing groups.
C32_NoCrashOnGrouplessPattern == wPc # "panic"

\* ------------------------------------------------------- NewQemu result
\* C33: when NewQemu has returned, it returned a session or an error: never
\* no session together with the error nil.
C33_SessionOrError == nqPc = "returned" => (retQemu \/ retErr # "nil")

\* ------------------------------------------------------- after end-of-stream
\* a wait call is in progress after a wait call returned io.EOF
CallAfterEOF == result = "EOF" /\ wPc # "idle"

\* C34: once a wait call has returned end-of-stream, the result of every
\* later call is end-of-stream; such a call is offered no byte (it never
\* scans and holds nothing) and never waits: the pump has ended, the line
\* buffer is empty with the stream-ended flag set, the lock is free when
\* the call asks for it, and the call neither sleeps nor scans.
C34_EOFIsFinal ==
  /\ [][result = "EOF" => result' = "EOF"]_vars
  /\ [](CallAfterEOF =>
          /\ wPc \in {"lock", "drain"}
          /\ buf = <<>> /\ toProcess = <<>> /\ dropped = <<>>
          /\ consoleData = <<>> /\ ~consoleDataArrived /\ consoleDataEOF
          /\ pumpPc = "done"
          /\ wPc = "lock" => ENABLED WaitLock)

C34_Witness ==
  /\ CallAfterEOF /\ calls = 1 /\ wPc = "drain"
  /\ stream = <<"A", "B">> /\ consumed = stream

\* ------------------------------------------------------- pump end claim
\* the pump goroutine has been started and has not returned
PumpRunning == pumpPc \notin {"none", "done"}

\* a termination call has returned
TerminationReturned == termCalls >= 1 /\ termPc = "idle"

\* a step of Kill, Shutdown or wait()
TerminationStep == termPc' # termPc

\* C35 as stated: once a termination call has returned, no pump is
\* running.
C35_NoPumpAfterTermination == TerminationReturned => ~PumpRunning

\* C35, amended: the pump eventually returns once the console channel is
\* closed by either side; when a termination call has returned the pump
\* may still be running, and then its next read fails and ends it; no step
\* of Kill, Shutdown or wait() writes on the console or changes the line
\* buffer.
C35_PumpEndsAfterClose ==
  /\ (PumpRunning /\ (console = "closed" \/ peer # "open")) ~> pumpPc = "done"
  /\ []((TerminationReturned /\ PumpRunning)
          => (console = "closed" /\ \A r \in ReadOutcomes : r.err # "nil"))
  /\ [][TerminationStep => UNCHANGED <<written, bufferVars>>]_vars

C35_Witness ==
  /\ TerminationReturned /\ termCalls = 1
  /\ pumpPc = "done" /\ readErr = "other"
  /\ console = "closed" /\ ~consoleDataEOF
  /\ exitErr = "nil"

\* ------------------------------------------------------- buffer invariant
\* C36: whenever the line buffer holds bytes the data-arrived flag is set,
\* so the next drain of a wait call examines them.
C36_BufferedBytesFlagged == consoleData # <<>> => consoleDataArrived

C36_Witness ==
  /\ Returned /\ calls = 1 /\ result = "nil"
  /\ appended = <<"A", NL, "B">>
  /\ consumed = <<"A", NL>>
  /\ consoleData = <<"B">> /\ consoleDataArrived
  /\ pumpPc = "done"

\* ------------------------------------------------------- carry bound
\* C37: the carry is always shorter than asciiSeqMaxLength, so at most 29
\* bytes are withheld from the line buffer, and at the start of a read
\* there is free space behind it in the working buffer.
C37_CarryBelowMaxLength ==
  /\ Len(pumpBuf) < asciiSeqMaxLength
  /\ pumpPc = "read" => BufSize - Len(pumpBuf) > 0

C37_Witness ==
  /\ pumpPc = "read"
  /\ Len(pumpBuf) = asciiSeqMaxLength - 1
  /\ pumpBuf[1] = ESC
  /\ appended = <<"A">>

====
